---- MODULE Spec2Model ----
(***************************************************************************)
(* Prism / Eternity Kernel: a stack-machine code generator with a scoped   *)
(* symbol table, and the virtual machine that executes its bytecode one    *)
(* instruction per generator step.                                         *)
(*                                                                         *)
(* Bytecode addresses are 0-based as in the source; TLA+ sequences are     *)
(* 1-based, so instruction a of a bytecode sequence c is c[a + 1].         *)
(***************************************************************************)
EXTENDS Integers, Sequences, FiniteSets, TLC

(***************************************************************************)
(* Runtime values (core/memory/values.ts).                                 *)
(***************************************************************************)
createInt(n) == [type |-> "INT", value |-> n]

createBool(b) == [type |-> "BOOL", value |-> b]

createPointer(address) ==
    [type |-> "POINTER", value |-> [address |-> address, type |-> "array"]]

createUninitialized == [type |-> "UNINITIALIZED", value |-> "null"]

\* What JavaScript reads from an array slot or property that was never written.
Undefined == [type |-> "undefined", value |-> "undefined"]

\* The generator's return value when the stack is empty.
Null == [type |-> "null", value |-> "null"]

IsNumber(v) == v.type = "INT" \/ v.type = "DOUBLE"

(***************************************************************************)
(* Error messages.  The source's messages are Chinese sentences; each is   *)
(* named here by an ASCII tag.                                             *)
(***************************************************************************)
NoError == ""

ErrUninitialized == "RuntimeError: use of uninitialized variable"

ErrNotNumber == "RuntimeError: operands must be numbers"

ErrDivZero == "RuntimeError: division by zero"

ErrNotBool == "RuntimeError: condition must be a boolean"

ErrArraySize == "RuntimeError: array size must be an integer"

ErrLoadIdxPtr == "RuntimeError: LOAD_IDX needs a pointer"

ErrStoreIdxPtr == "RuntimeError: STORE_IDX needs a pointer"

ErrIndexType == "RuntimeError: array index must be an integer"

ErrBounds == "RuntimeError: array index out of bounds"

ErrHeapAddress == "RuntimeError: invalid heap address"

ErrOverflow == "Error: Stack overflow"

ErrUnderflow == "Error: Stack underflow"

ErrEmpty == "Error: Stack is empty"

ErrBadLoad == "Error: Invalid local variable load"

ErrBadStore == "Error: Invalid local variable store"

ErrTypeError == "TypeError: property of undefined"

ErrRange == "RangeError: Invalid array length"

ErrUnknownOpcode == "Error: Unknown opcode"

(***************************************************************************)
(* The unified stack (core/memory/call-stack.ts).  The JavaScript array is *)
(* a map from the indices written so far to values; a slot never written   *)
(* reads as undefined, and pop leaves the popped value in its slot.        *)
(***************************************************************************)
STACK_MAX_SIZE == 2048

SlotRead(slots, k) == IF k \in DOMAIN slots THEN slots[k] ELSE Undefined

SlotWrite(slots, k, v) ==
    [i \in (DOMAIN slots) \cup {k} |-> IF i = k THEN v ELSE slots[i]]

Throw(m, msg) == [m EXCEPT !.err = msg]

Failed(m) == m.err # NoError

StackPush(m, v) ==
    IF m.sp >= STACK_MAX_SIZE
    THEN Throw(m, ErrOverflow)
    ELSE [m EXCEPT !.stack = SlotWrite(m.stack, m.sp, v), !.sp = m.sp + 1]

\* pop(): the machine after the pop; the value popped is Popped(m).
StackPop(m) ==
    IF m.sp <= 0 THEN Throw(m, ErrUnderflow) ELSE [m EXCEPT !.sp = m.sp - 1]

Popped(m) == SlotRead(m.stack, m.sp - 1)

\* peek(): fails on an empty stack, else the value is Popped(m).
StackPeek(m) == IF m.sp <= 0 THEN Throw(m, ErrEmpty) ELSE m

StackLoadOk(m, index) == ~(m.bp + index < 0 \/ m.bp + index >= m.sp)

StackLoad(m, index) == SlotRead(m.stack, m.bp + index)

StackStore(m, index, v) ==
    IF m.bp + index < 0 \/ m.bp + index >= STACK_MAX_SIZE
    THEN Throw(m, ErrBadStore)
    ELSE [m EXCEPT !.stack = SlotWrite(m.stack, m.bp + index, v)]

(***************************************************************************)
(* The heap (core/memory/heap.ts): a sequence of arrays; the address of an *)
(* array is its 0-based position.                                          *)
(***************************************************************************)
\* initialValues[i] where initialValues is what ALLOC_ARR passes: the
\* instruction's operand, a type token (or nothing), which has no numeric
\* property, so the lookup is always undefined.
InitialValueAt(initialValues, i) == Undefined

Truthy(v) == v.type # "undefined"

\* A faulty allocArray: the new array takes the place of the first.
allocArrayInFront(heap, size, initialValues) ==
    <<[i \in 1..size |->
          IF Truthy(InitialValueAt(initialValues, i - 1))
          THEN InitialValueAt(initialValues, i - 1)
          ELSE createInt(0)]>> \o heap

allocArray(heap, size, initialValues) ==
    Append(heap,
           [i \in 1..size |->
               IF Truthy(InitialValueAt(initialValues, i - 1))
               THEN InitialValueAt(initialValues, i - 1)
               ELSE createInt(0)])

HeapLoad(heap, address, index) ==
    IF index >= 0 /\ index < Len(heap[address + 1])
    THEN heap[address + 1][index + 1]
    ELSE Undefined

\* memory[address][index] = value.  An index at or past the length grows the
\* JavaScript array and leaves holes; a negative index sets a property and
\* leaves the elements alone.
HeapStore(heap, address, index, v) ==
    LET arr == heap[address + 1]
    IN  IF index < 0 THEN heap
        ELSE [heap EXCEPT ![address + 1] =
                 [i \in 1..(IF index + 1 > Len(arr) THEN index + 1 ELSE Len(arr)) |->
                     IF i = index + 1 THEN v
                     ELSE IF i <= Len(arr) THEN arr[i] ELSE Undefined]]

(***************************************************************************)
(* The guardian (core/vm/guardian.ts).                                     *)
(***************************************************************************)
\* A faulty checkArrayBounds: the upper bound is off by one.
checkArrayBoundsOffByOne(arrayLength, index) ==
    IF index < 0 \/ index > arrayLength THEN ErrBounds ELSE NoError

checkArrayBounds(arrayLength, index) ==
    IF index < 0 \/ index >= arrayLength THEN ErrBounds ELSE NoError

checkHeapAddress(address, heapSize) ==
    IF address < 0 \/ address >= heapSize THEN ErrHeapAddress ELSE NoError

(***************************************************************************)
(* The virtual machine (core/vm/virtual-machine.ts, the revision with the  *)
(* runtime checks).  A machine is a record                                 *)
(*   [ip, stack, sp, bp, heap, out, err]                                   *)
(* where out is what PRINT has written and err is the exception thrown by  *)
(* the instruction being executed (NoError when none).  An instruction     *)
(* that throws leaves the machine as it was at the throw: ip already       *)
(* advanced, operands already popped.                                      *)
(***************************************************************************)
NewMachine ==
    [ip |-> 0, stack |-> <<>>, sp |-> 0, bp |-> 0, heap |-> <<>>,
     out |-> <<>>, err |-> NoError]

\* checkInitialized: the error it throws, or NoError.  Reading .type of
\* undefined is a TypeError.
checkInitialized(value) ==
    IF value.type = "undefined" THEN ErrTypeError
    ELSE IF value.type = "UNINITIALIZED" THEN ErrUninitialized
    ELSE NoError

Abs(n) == IF n < 0 THEN -n ELSE n

\* A faulty quotient: Math.floor in place of Math.trunc.
FloorDiv(l, r) ==
    LET q == Abs(l) \div Abs(r)
    IN  IF (l < 0) = (r < 0) THEN q
        ELSE IF Abs(l) % Abs(r) = 0 THEN -q ELSE -q - 1

\* Math.trunc(l / r) for integers l and r, r # 0.
TruncDiv(l, r) ==
    LET q == Abs(l) \div Abs(r)
    IN  IF (l < 0) = (r < 0) THEN q ELSE -q

\* l % r of JavaScript for integers l and r, r # 0.
JsRemainder(l, r) ==
    LET a == Abs(l) % Abs(r)
    IN  IF l < 0 THEN -a ELSE a

ArithResult(opcode, l, r) ==
    CASE opcode = "ADD" -> l + r
      [] opcode = "SUB" -> l - r
      [] opcode = "MUL" -> l * r
      [] opcode = "DIV" -> TruncDiv(l, r)
      [] opcode = "PERCENT" -> JsRemainder(l, r)

\* left.value === right.value
StrictEquals(l, r) ==
    IF IsNumber(l) /\ IsNumber(r) THEN l.value = r.value
    ELSE IF l.type = "BOOL" /\ r.type = "BOOL" THEN l.value = r.value
    ELSE IF l.type = "POINTER" /\ r.type = "POINTER"
         THEN l.value.address = r.value.address
    ELSE FALSE

CompareResult(opcode, l, r) ==
    CASE opcode = "LT" -> l < r
      [] opcode = "GT" -> l > r
      [] opcode = "LTE" -> l <= r
      [] opcode = "GTE" -> l >= r

\* !value.value
JsNot(v) ==
    IF v.type = "BOOL" THEN ~v.value
    ELSE IF IsNumber(v) THEN v.value = 0
    ELSE FALSE

\* The two pops and the checks that ADD .. PERCENT and LT .. GTE share.
NumericOperandsError(left, right) ==
    IF checkInitialized(left) # NoError THEN checkInitialized(left)
    ELSE IF checkInitialized(right) # NoError THEN checkInitialized(right)
    ELSE IF ~IsNumber(left) \/ ~IsNumber(right) THEN ErrNotNumber
    ELSE NoError

ExecReserve(m, operand) == [m EXCEPT !.sp = m.sp + operand]

ExecPush(m, operand) == StackPush(m, operand)

ExecPop(m) == StackPop(m)

RECURSIVE ExecPopN(_, _)
ExecPopN(m, n) ==
    IF n <= 0 THEN m
    ELSE IF Failed(StackPop(m)) THEN StackPop(m)
    ELSE ExecPopN(StackPop(m), n - 1)

ExecDup(m) ==
    IF Failed(StackPeek(m)) THEN StackPeek(m) ELSE StackPush(m, Popped(m))

ExecSwap(m) ==
    LET m1 == StackPop(m)
        a  == Popped(m)
        m2 == StackPop(m1)
        b  == Popped(m1)
    IN  IF Failed(m1) THEN m1
        ELSE IF Failed(m2) THEN m2
        ELSE StackPush(StackPush(m2, a), b)

ExecArith(m, opcode) ==
    LET m1    == StackPop(m)
        right == Popped(m)
        m2    == StackPop(m1)
        left  == Popped(m1)
    IN  IF Failed(m1) THEN m1
        ELSE IF Failed(m2) THEN m2
        ELSE IF NumericOperandsError(left, right) # NoError
             THEN Throw(m2, NumericOperandsError(left, right))
        ELSE IF opcode \in {"DIV", "PERCENT"} /\ right.value = 0
             THEN Throw(m2, ErrDivZero)
        ELSE StackPush(m2, createInt(ArithResult(opcode, left.value, right.value)))

ExecNegate(m) ==
    LET m1    == StackPop(m)
        value == Popped(m)
    IN  IF Failed(m1) THEN m1
        ELSE IF checkInitialized(value) # NoError
             THEN Throw(m1, checkInitialized(value))
        ELSE IF ~IsNumber(value) THEN Throw(m1, ErrNotNumber)
        ELSE StackPush(m1, createInt(-value.value))

ExecNot(m) ==
    LET m1    == StackPop(m)
        value == Popped(m)
    IN  IF Failed(m1) THEN m1
        ELSE IF checkInitialized(value) # NoError
             THEN Throw(m1, checkInitialized(value))
        ELSE StackPush(m1, createBool(JsNot(value)))

ExecPrint(m) ==
    LET value == Popped(m)
    IN  IF Failed(StackPeek(m)) THEN StackPeek(m)
        ELSE IF checkInitialized(value) # NoError
             THEN Throw(m, checkInitialized(value))
        ELSE [m EXCEPT !.out = Append(m.out, value)]

ExecLoad(m, operand) ==
    IF ~StackLoadOk(m, operand) THEN Throw(m, ErrBadLoad)
    ELSE StackPush(m, StackLoad(m, operand))

\* A faulty STORE: it pops the value it stores.
ExecStorePopping(m, operand) ==
    LET valueToStore == Popped(m)
    IN  IF Failed(StackPeek(m)) THEN StackPeek(m)
        ELSE IF checkInitialized(valueToStore) # NoError
             THEN Throw(m, checkInitialized(valueToStore))
        ELSE StackPop(StackStore(m, operand, valueToStore))

ExecStore(m, operand) ==
    LET valueToStore == Popped(m)
    IN  IF Failed(StackPeek(m)) THEN StackPeek(m)
        ELSE IF checkInitialized(valueToStore) # NoError
             THEN Throw(m, checkInitialized(valueToStore))
        ELSE StackStore(m, operand, valueToStore)

ExecEq(m, opcode) ==
    LET m1    == StackPop(m)
        right == Popped(m)
        m2    == StackPop(m1)
        left  == Popped(m1)
    IN  IF Failed(m1) THEN m1
        ELSE IF Failed(m2) THEN m2
        ELSE IF checkInitialized(left) # NoError
             THEN Throw(m2, checkInitialized(left))
        ELSE IF checkInitialized(right) # NoError
             THEN Throw(m2, checkInitialized(right))
        ELSE StackPush(m2, createBool(IF opcode = "EQ"
                                      THEN StrictEquals(left, right)
                                      ELSE ~StrictEquals(left, right)))

ExecCompare(m, opcode) ==
    LET m1    == StackPop(m)
        right == Popped(m)
        m2    == StackPop(m1)
        left  == Popped(m1)
    IN  IF Failed(m1) THEN m1
        ELSE IF Failed(m2) THEN m2
        ELSE IF NumericOperandsError(left, right) # NoError
             THEN Throw(m2, NumericOperandsError(left, right))
        ELSE StackPush(m2, createBool(CompareResult(opcode, left.value, right.value)))

ExecJump(m, operand) == [m EXCEPT !.ip = operand]

\* A lax JUMP_IF_FALSE: any falsy value jumps and no type is required.
ExecJumpIfFalseLax(m, operand) ==
    LET m1    == StackPop(m)
        value == Popped(m)
    IN  IF Failed(m1) THEN m1
        ELSE IF checkInitialized(value) # NoError
             THEN Throw(m1, checkInitialized(value))
        ELSE IF JsNot(value) THEN [m1 EXCEPT !.ip = operand]
        ELSE m1

ExecJumpIfFalse(m, operand) ==
    LET m1    == StackPop(m)
        value == Popped(m)
    IN  IF Failed(m1) THEN m1
        ELSE IF checkInitialized(value) # NoError
             THEN Throw(m1, checkInitialized(value))
        ELSE IF value.type # "BOOL" THEN Throw(m1, ErrNotBool)
        ELSE IF value.value = FALSE THEN [m1 EXCEPT !.ip = operand]
        ELSE m1

\* A faulty conditional jump that keeps the value: it jumps on the other value.
ExecJumpPeekInverted(m, operand, jumpWhen) ==
    LET value == Popped(m)
    IN  IF Failed(StackPeek(m)) THEN StackPeek(m)
        ELSE IF checkInitialized(value) # NoError
             THEN Throw(m, checkInitialized(value))
        ELSE IF value.type # "BOOL" THEN Throw(m, ErrNotBool)
        ELSE IF value.value # jumpWhen THEN [m EXCEPT !.ip = operand]
        ELSE m

\* JUMP_IF_FALSE_PEEK (jumpWhen = FALSE) and JUMP_IF_TRUE_PEEK (jumpWhen = TRUE).
ExecJumpPeek(m, operand, jumpWhen) ==
    LET value == Popped(m)
    IN  IF Failed(StackPeek(m)) THEN StackPeek(m)
        ELSE IF checkInitialized(value) # NoError
             THEN Throw(m, checkInitialized(value))
        ELSE IF value.type # "BOOL" THEN Throw(m, ErrNotBool)
        ELSE IF value.value = jumpWhen THEN [m EXCEPT !.ip = operand]
        ELSE m

\* A faulty ALLOC_ARR: the pointer it pushes is one past the new array.
ExecAllocArrPastEnd(m, operand) ==
    LET m1      == StackPop(m)
        sizeVal == Popped(m)
    IN  IF Failed(m1) THEN m1
        ELSE IF checkInitialized(sizeVal) # NoError
             THEN Throw(m1, checkInitialized(sizeVal))
        ELSE IF sizeVal.type # "INT" THEN Throw(m1, ErrArraySize)
        ELSE IF sizeVal.value < 0 THEN Throw(m1, ErrRange)
        ELSE StackPush([m1 EXCEPT !.heap = allocArray(m1.heap, sizeVal.value, operand)],
                       createPointer(Len(m1.heap) + 1))

ExecAllocArr(m, operand) ==
    LET m1      == StackPop(m)
        sizeVal == Popped(m)
    IN  IF Failed(m1) THEN m1
        ELSE IF checkInitialized(sizeVal) # NoError
             THEN Throw(m1, checkInitialized(sizeVal))
        ELSE IF sizeVal.type # "INT" THEN Throw(m1, ErrArraySize)
        ELSE IF sizeVal.value < 0 THEN Throw(m1, ErrRange)
        ELSE StackPush([m1 EXCEPT !.heap = allocArray(m1.heap, sizeVal.value, operand)],
                       createPointer(Len(m1.heap)))

\* The checks LOAD_IDX and STORE_IDX make on their pointer and index operands
\* once both are known to be initialized.
IndexOperandsError(m, ptrVal, indexVal, ptrError) ==
    IF ptrVal.type # "POINTER" THEN ptrError
    ELSE IF indexVal.type # "INT" THEN ErrIndexType
    ELSE IF checkHeapAddress(ptrVal.value.address, Len(m.heap)) # NoError
         THEN checkHeapAddress(ptrVal.value.address, Len(m.heap))
    ELSE checkArrayBounds(Len(m.heap[ptrVal.value.address + 1]), indexVal.value)

ExecLoadIdx(m) ==
    LET m1       == StackPop(m)
        indexVal == Popped(m)
        m2       == StackPop(m1)
        ptrVal   == Popped(m1)
    IN  IF Failed(m1) THEN m1
        ELSE IF Failed(m2) THEN m2
        ELSE IF checkInitialized(indexVal) # NoError
             THEN Throw(m2, checkInitialized(indexVal))
        ELSE IF checkInitialized(ptrVal) # NoError
             THEN Throw(m2, checkInitialized(ptrVal))
        ELSE IF IndexOperandsError(m2, ptrVal, indexVal, ErrLoadIdxPtr) # NoError
             THEN Throw(m2, IndexOperandsError(m2, ptrVal, indexVal, ErrLoadIdxPtr))
        ELSE StackPush(m2, HeapLoad(m2.heap, ptrVal.value.address, indexVal.value))

\* A faulty STORE_IDX: it stores the value without checking that it is
\* initialized.
ExecStoreIdxUnchecked(m) ==
    LET m1           == StackPop(m)
        valueToStore == Popped(m)
        m2           == StackPop(m1)
        indexVal     == Popped(m1)
        m3           == StackPop(m2)
        ptrVal       == Popped(m2)
    IN  IF Failed(m1) THEN m1
        ELSE IF Failed(m2) THEN m2
        ELSE IF Failed(m3) THEN m3
        ELSE IF checkInitialized(indexVal) # NoError
             THEN Throw(m3, checkInitialized(indexVal))
        ELSE IF checkInitialized(ptrVal) # NoError
             THEN Throw(m3, checkInitialized(ptrVal))
        ELSE IF IndexOperandsError(m3, ptrVal, indexVal, ErrStoreIdxPtr) # NoError
             THEN Throw(m3, IndexOperandsError(m3, ptrVal, indexVal, ErrStoreIdxPtr))
        ELSE StackPush([m3 EXCEPT !.heap = HeapStore(m3.heap, ptrVal.value.address,
                                                     indexVal.value, valueToStore)],
                       valueToStore)

\* A faulty STORE_IDX: it pushes nothing.
ExecStoreIdxSilent(m) ==
    LET m1           == StackPop(m)
        valueToStore == Popped(m)
        m2           == StackPop(m1)
        indexVal     == Popped(m1)
        m3           == StackPop(m2)
        ptrVal       == Popped(m2)
    IN  IF Failed(m1) THEN m1
        ELSE IF Failed(m2) THEN m2
        ELSE IF Failed(m3) THEN m3
        ELSE IF checkInitialized(valueToStore) # NoError
             THEN Throw(m3, checkInitialized(valueToStore))
        ELSE IF checkInitialized(indexVal) # NoError
             THEN Throw(m3, checkInitialized(indexVal))
        ELSE IF checkInitialized(ptrVal) # NoError
             THEN Throw(m3, checkInitialized(ptrVal))
        ELSE IF IndexOperandsError(m3, ptrVal, indexVal, ErrStoreIdxPtr) # NoError
             THEN Throw(m3, IndexOperandsError(m3, ptrVal, indexVal, ErrStoreIdxPtr))
        ELSE [m3 EXCEPT !.heap = HeapStore(m3.heap, ptrVal.value.address,
                                           indexVal.value, valueToStore)]

ExecStoreIdx(m) ==
    LET m1           == StackPop(m)
        valueToStore == Popped(m)
        m2           == StackPop(m1)
        indexVal     == Popped(m1)
        m3           == StackPop(m2)
        ptrVal       == Popped(m2)
    IN  IF Failed(m1) THEN m1
        ELSE IF Failed(m2) THEN m2
        ELSE IF Failed(m3) THEN m3
        ELSE IF checkInitialized(valueToStore) # NoError
             THEN Throw(m3, checkInitialized(valueToStore))
        ELSE IF checkInitialized(indexVal) # NoError
             THEN Throw(m3, checkInitialized(indexVal))
        ELSE IF checkInitialized(ptrVal) # NoError
             THEN Throw(m3, checkInitialized(ptrVal))
        ELSE IF IndexOperandsError(m3, ptrVal, indexVal, ErrStoreIdxPtr) # NoError
             THEN Throw(m3, IndexOperandsError(m3, ptrVal, indexVal, ErrStoreIdxPtr))
        ELSE StackPush([m3 EXCEPT !.heap = HeapStore(m3.heap, ptrVal.value.address,
                                                     indexVal.value, valueToStore)],
                       valueToStore)

\* The switch of run(): the effect of one fetched instruction.
Execute(m, instruction) ==
    LET opcode  == instruction.opcode
        operand == instruction.operand
    IN  CASE opcode = "RESERVE" -> ExecReserve(m, operand)
          [] opcode = "PUSH" -> ExecPush(m, operand)
          [] opcode = "POP" -> ExecPop(m)
          [] opcode = "POP_N" -> ExecPopN(m, operand)
          [] opcode = "DUP" -> ExecDup(m)
          [] opcode = "SWAP" -> ExecSwap(m)
          [] opcode \in {"ADD", "SUB", "MUL", "DIV", "PERCENT"} -> ExecArith(m, opcode)
          [] opcode = "NEGATE" -> ExecNegate(m)
          [] opcode = "NOT" -> ExecNot(m)
          [] opcode = "PRINT" -> ExecPrint(m)
          [] opcode = "LOAD" -> ExecLoad(m, operand)
          [] opcode = "STORE" -> ExecStore(m, operand)
          [] opcode \in {"EQ", "NEQ"} -> ExecEq(m, opcode)
          [] opcode \in {"LT", "GT", "LTE", "GTE"} -> ExecCompare(m, opcode)
          [] opcode = "JUMP" -> ExecJump(m, operand)
          [] opcode = "JUMP_IF_FALSE" -> ExecJumpIfFalse(m, operand)
          [] opcode = "JUMP_IF_FALSE_PEEK" -> ExecJumpPeek(m, operand, FALSE)
          [] opcode = "JUMP_IF_TRUE_PEEK" -> ExecJumpPeek(m, operand, TRUE)
          [] opcode = "ALLOC_ARR" -> ExecAllocArr(m, operand)
          [] opcode = "LOAD_IDX" -> ExecLoadIdx(m)
          [] opcode = "STORE_IDX" -> ExecStoreIdx(m)
          [] OTHER -> Throw(m, ErrUnknownOpcode)

\* const instruction = this.instructions[this.ip]; this.ip++;
Fetch(bytecode, m) == bytecode[m.ip + 1]

AfterFetch(m) == [m EXCEPT !.ip = m.ip + 1]

(***************************************************************************)
(* The symbol table (lang/codegen/symbol-table.ts): a record               *)
(*   [locals, scopeDepth, err]                                             *)
(* where locals is the list of [name, depth] records and err is the error  *)
(* thrown by the last define or resolve.  The index resolve returns is     *)
(* 0-based, as in the source.                                              *)
(***************************************************************************)
ErrRedefined == "Error: variable already defined in this scope"

ErrUndefinedVariable == "Error: undefined variable"

enterScope(st) == [st EXCEPT !.scopeDepth = st.scopeDepth + 1]

\* The constructor enters the global scope.
NewSymbolTable == enterScope([locals |-> <<>>, scopeDepth |-> 0, err |-> NoError])

\* The number of trailing records of the current depth (the while loop of exitScope).
RECURSIVE numLocalsAtDepth(_, _)
numLocalsAtDepth(locals, depth) ==
    IF Len(locals) > 0 /\ locals[Len(locals)].depth = depth
    THEN 1 + numLocalsAtDepth(SubSeq(locals, 1, Len(locals) - 1), depth)
    ELSE 0

exitScopeCount(st) == numLocalsAtDepth(st.locals, st.scopeDepth)

\* A faulty exitScope: the scope's locals stay in the table.
exitScopeKeepsLocals(st) == [st EXCEPT !.scopeDepth = st.scopeDepth - 1]

exitScope(st) ==
    [st EXCEPT !.locals = SubSeq(st.locals, 1, Len(st.locals) - exitScopeCount(st)),
               !.scopeDepth = st.scopeDepth - 1]

\* The duplicate check of define, scanning from position i (1-based) downwards.
RECURSIVE definedInScope(_, _, _, _)
definedInScope(locals, i, depth, name) ==
    IF i < 1 THEN FALSE
    ELSE IF locals[i].depth < depth THEN FALSE
    ELSE IF locals[i].name = name THEN TRUE
    ELSE definedInScope(locals, i - 1, depth, name)

\* A faulty define: no check for a name already in the scope.
defineUnchecked(st, name) ==
    [st EXCEPT !.locals = Append(st.locals, [name |-> name, depth |-> st.scopeDepth])]

define(st, name) ==
    IF definedInScope(st.locals, Len(st.locals), st.scopeDepth, name)
    THEN [st EXCEPT !.err = ErrRedefined]
    ELSE [st EXCEPT !.locals = Append(st.locals, [name |-> name, depth |-> st.scopeDepth])]

\* The search of resolve from position i (1-based) downwards: the 0-based
\* index of the innermost match, or -1 where the source throws.
RECURSIVE resolveFrom(_, _, _)
resolveFrom(locals, i, name) ==
    IF i < 1 THEN -1
    ELSE IF locals[i].name = name THEN i - 1
    ELSE resolveFrom(locals, i - 1, name)

resolve(st, name) == resolveFrom(st.locals, Len(st.locals), name)

(***************************************************************************)
(* The abstract syntax tree (lang/parser/ast.ts and the nodes the parser   *)
(* builds).  A token is [type, lexeme]; an optional field that is absent   *)
(* holds Absent.  A numeric literal's value is an integer: literals with a *)
(* fractional part are not modelled.                                       *)
(***************************************************************************)
Absent == [kind |-> "undefined"]

Present(node) == node.kind # "undefined"

Token(type, lexeme) == [type |-> type, lexeme |-> lexeme]

IntLiteral(n) == [kind |-> "Literal", value |-> n, type |-> "INT_LITERAL"]

BoolLiteral(b) ==
    [kind |-> "Literal", value |-> b, type |-> IF b THEN "TRUE" ELSE "FALSE"]

Identifier(x) == [kind |-> "Identifier", name |-> Token("IDENTIFIER", x)]

Unary(op, right) == [kind |-> "Unary", operator |-> Token(op, op), right |-> right]

Binary(left, op, right) ==
    [kind |-> "Binary", left |-> left, operator |-> Token(op, op), right |-> right]

Assignment(target, op, value) ==
    [kind |-> "Assignment", target |-> target, operator |-> Token(op, op),
     value |-> value]

Update(op, argument, prefix) ==
    [kind |-> "Update", operator |-> Token(op, op), argument |-> argument,
     prefix |-> prefix]

Subscript(object, index) == [kind |-> "Subscript", object |-> object, index |-> index]

InitializerList(elements) == [kind |-> "InitializerList", elements |-> elements]

Program(body) == [kind |-> "Program", body |-> body]

ExpressionStmt(e) == [kind |-> "ExpressionStmt", expression |-> e]

BlockStmt(body) == [kind |-> "BlockStmt", body |-> body]

EmptyStmt == [kind |-> "EmptyStmt"]

Declarator(x, size, initializer) ==
    [kind |-> "Declarator", name |-> Token("IDENTIFIER", x), size |-> size,
     initializer |-> initializer]

VarDeclaration(type, declarators) ==
    [kind |-> "VarDeclaration", dataType |-> Token(type, type),
     declarators |-> declarators]

IfStmt(c, t, e) ==
    [kind |-> "IfStmt", condition |-> c, thenBranch |-> t, elseBranch |-> e]

WhileStmt(c, body) == [kind |-> "WhileStmt", condition |-> c, body |-> body]

ForStmt(init, c, inc, body) ==
    [kind |-> "ForStmt", initializer |-> init, condition |-> c, increment |-> inc,
     body |-> body]

BreakStmt == [kind |-> "BreakStmt"]

ContinueStmt == [kind |-> "ContinueStmt"]

(***************************************************************************)
(* The code generator (lang/codegen/codegen.ts): a record                  *)
(*   [bytecode, symbolTable, loopStack, err, spans]                        *)
(* A throw sets err, and every later operation of the same generate call   *)
(* leaves the generator as it is (the exception unwinds the visitors).     *)
(* spans is a history field: for every node visited, the addresses of the  *)
(* first instruction emitted for it and of the first instruction after it. *)
(* It is never read by the generator.                                      *)
(***************************************************************************)
ErrBreakOutsideLoop == "Error: break outside loop"

ErrContinueOutsideLoop == "Error: continue outside loop"

ErrImplicitSizeNeedsInit == "Error: implicitly sized array must be initialized"

ErrArrayNeedsInitList == "Error: array needs an initializer list"

ErrInitListTooLong == "CompileError: initializer list exceeds array size"

ErrUnknownCompound == "Error: unknown compound assignment operator"

ErrInvalidTarget == "Error: invalid assignment target"

ErrUpdateArgument == "Error: update argument must be identifier or subscript"

ErrUnknownBinary == "Error: unknown binary operator"

ErrUnknownUnary == "Error: unknown unary operator"

ErrUnknownNode == "Error: unknown AST node kind"

\* patches is a history like spans: for each instruction of the bytecode, how
\* often patchJump has overwritten its operand, or -1 when it was not emitted
\* by emitJump.
NewCodeGenerator ==
    [bytecode |-> <<>>, symbolTable |-> NewSymbolTable, loopStack |-> <<>>,
     err |-> NoError, spans |-> <<>>, patches |-> <<>>]

emit(g, opcode, operand) ==
    IF Failed(g) THEN g
    ELSE [g EXCEPT !.bytecode = Append(g.bytecode, [opcode |-> opcode, operand |-> operand]),
                   !.patches = Append(g.patches, -1)]

\* emitJump returns this.bytecode.length - 1: JumpLocation of the generator after it.
emitJump(g, jumpInstruction) ==
    IF Failed(g) THEN g
    ELSE [emit(g, jumpInstruction, 0) EXCEPT !.patches[Len(g.bytecode) + 1] = 0]

JumpLocation(g) == Len(g.bytecode) - 1

patchJump(g, jumpLocation) ==
    IF Failed(g) THEN g
    ELSE [g EXCEPT !.bytecode[jumpLocation + 1].operand = Len(g.bytecode),
                   !.patches[jumpLocation + 1] = g.patches[jumpLocation + 1] + 1]

RECURSIVE patchJumps(_, _)
patchJumps(g, jumps) ==
    IF jumps = <<>> THEN g ELSE patchJumps(patchJump(g, Head(jumps)), Tail(jumps))

emitLoop(g, loopStart) == emit(g, "JUMP", loopStart)

genEnterScope(g) ==
    IF Failed(g) THEN g ELSE [g EXCEPT !.symbolTable = enterScope(g.symbolTable)]

\* const numLocals = this.symbolTable.exitScope(); if (numLocals > 0) emit(POP_N, numLocals)
genExitScope(g) ==
    IF Failed(g) THEN g
    ELSE LET numLocals == exitScopeCount(g.symbolTable)
             g1 == [g EXCEPT !.symbolTable = exitScope(g.symbolTable)]
         IN  IF numLocals > 0 THEN emit(g1, "POP_N", numLocals) ELSE g1

genDefine(g, name) ==
    IF Failed(g) THEN g
    ELSE IF Failed(define(g.symbolTable, name))
         THEN [g EXCEPT !.err = define(g.symbolTable, name).err]
    ELSE [g EXCEPT !.symbolTable = define(g.symbolTable, name)]

\* A visitor's first step when it resolves a name: the throw of resolve.
genResolve(g, name) ==
    IF Failed(g) THEN g
    ELSE IF resolve(g.symbolTable, name) < 0 THEN [g EXCEPT !.err = ErrUndefinedVariable]
    ELSE g

pushLoop(g, context) ==
    IF Failed(g) THEN g ELSE [g EXCEPT !.loopStack = Append(g.loopStack, context)]

popLoop(g) ==
    IF Failed(g) THEN g
    ELSE [g EXCEPT !.loopStack = SubSeq(g.loopStack, 1, Len(g.loopStack) - 1)]

\* The node's entry in the history of spans.
SpanOf(node, start, end) ==
    [kind |-> node.kind, start |-> start, end |-> end,
     operator |-> IF node.kind \in {"Binary", "Unary", "Update", "Assignment"}
                  THEN node.operator.type ELSE "",
     prefix |-> IF node.kind = "Update" THEN node.prefix ELSE FALSE,
     target |-> IF node.kind = "Update" THEN node.argument.kind
                ELSE IF node.kind = "Assignment" THEN node.target.kind ELSE "",
     n |-> IF node.kind = "VarDeclaration" THEN Len(node.declarators) ELSE 0,
     retained |-> FALSE, before |-> <<>>, after |-> <<>>, body |-> 0, locals |-> 0]

\* The history entry of a compiled loop: start is the address of its
\* condition (loopStart), body that of its body, n the address a continue
\* goes to, end the address just after its closing JUMP loopStart, and
\* locals the number of variables its header declares.
LoopSpan(operator, loopStart, body, continueTarget, end, locals) ==
    [kind |-> "Loop", start |-> loopStart, end |-> end, operator |-> operator,
     prefix |-> FALSE, target |-> "", n |-> continueTarget, retained |-> FALSE,
     before |-> <<>>, after |-> <<>>, body |-> body, locals |-> locals]

\* The number of variables a for statement's initializer declares.
HeaderLocals(stmt) ==
    IF Present(stmt.initializer) /\ stmt.initializer.kind = "VarDeclaration"
    THEN Len(stmt.initializer.declarators)
    ELSE 0

addSpan(g, span) == IF Failed(g) THEN g ELSE [g EXCEPT !.spans = Append(g.spans, span)]

RECURSIVE visit(_, _)

RECURSIVE visitAll(_, _)
visitAll(g, nodes) ==
    IF nodes = <<>> THEN g ELSE visitAll(visit(g, Head(nodes)), Tail(nodes))

visitSubscriptExpression(g, expr) ==
    emit(visit(visit(g, expr.object), expr.index), "LOAD_IDX", Undefined)

visitBlockStatement(g, stmt) ==
    genExitScope(visitAll(genEnterScope(g), stmt.body))

visitIfStatement(g, stmt) ==
    LET g1 == emitJump(visit(g, stmt.condition), "JUMP_IF_FALSE")
        thenJump == JumpLocation(g1)
        g2 == visit(g1, stmt.thenBranch)
        g3 == IF Present(stmt.elseBranch) THEN emitJump(g2, "JUMP") ELSE g2
        elseJump == JumpLocation(g3)
        g4 == patchJump(g3, thenJump)
    IN  IF Present(stmt.elseBranch)
        THEN patchJump(visit(g4, stmt.elseBranch), elseJump)
        ELSE g4

visitWhileStatement(g, stmt) ==
    LET loopStart == Len(g.bytecode)
        g1 == pushLoop(g, [breakJumps |-> <<>>, continueLabel |-> loopStart,
                           continueJumps |-> <<>>])
        g2 == emitJump(visit(g1, stmt.condition), "JUMP_IF_FALSE")
        exitJump == JumpLocation(g2)
        g3 == patchJump(emitLoop(visit(g2, stmt.body), loopStart), exitJump)
        context == g3.loopStack[Len(g3.loopStack)]
    IN  addSpan(patchJumps(popLoop(g3), context.breakJumps),
                LoopSpan("while", loopStart, exitJump + 1, loopStart, Len(g3.bytecode), 0))

\* A faulty visitForStatement: the breaks are patched after the scope's POP_N.
visitForStatementBreaksPastPop(g, stmt) ==
    LET g1 == IF Present(stmt.initializer)
              THEN visit(genEnterScope(g), stmt.initializer)
              ELSE genEnterScope(g)
        loopStart == Len(g1.bytecode)
        g2 == IF Present(stmt.condition)
              THEN emitJump(visit(g1, stmt.condition), "JUMP_IF_FALSE")
              ELSE g1
        exitJump == IF Present(stmt.condition) THEN JumpLocation(g2) ELSE -1
        g3 == visit(pushLoop(g2, [breakJumps |-> <<>>, continueLabel |-> -1,
                                  continueJumps |-> <<>>]),
                    stmt.body)
        g4 == patchJumps(g3, g3.loopStack[Len(g3.loopStack)].continueJumps)
        g5 == IF Present(stmt.increment)
              THEN emit(visit(g4, stmt.increment), "POP", Undefined)
              ELSE g4
        g6 == emitLoop(g5, loopStart)
        g7 == IF exitJump # -1 THEN patchJump(g6, exitJump) ELSE g6
        context == g7.loopStack[Len(g7.loopStack)]
    IN  addSpan(patchJumps(genExitScope(popLoop(g7)), context.breakJumps),
                LoopSpan("for", loopStart, Len(g2.bytecode), Len(g3.bytecode),
                         Len(g6.bytecode), HeaderLocals(stmt)))

visitForStatement(g, stmt) ==
    LET g1 == IF Present(stmt.initializer)
              THEN visit(genEnterScope(g), stmt.initializer)
              ELSE genEnterScope(g)
        loopStart == Len(g1.bytecode)
        g2 == IF Present(stmt.condition)
              THEN emitJump(visit(g1, stmt.condition), "JUMP_IF_FALSE")
              ELSE g1
        exitJump == IF Present(stmt.condition) THEN JumpLocation(g2) ELSE -1
        g3 == visit(pushLoop(g2, [breakJumps |-> <<>>, continueLabel |-> -1,
                                  continueJumps |-> <<>>]),
                    stmt.body)
        g4 == patchJumps(g3, g3.loopStack[Len(g3.loopStack)].continueJumps)
        g5 == IF Present(stmt.increment)
              THEN emit(visit(g4, stmt.increment), "POP", Undefined)
              ELSE g4
        g6 == emitLoop(g5, loopStart)
        g7 == IF exitJump # -1 THEN patchJump(g6, exitJump) ELSE g6
        context == g7.loopStack[Len(g7.loopStack)]
    IN  addSpan(genExitScope(patchJumps(popLoop(g7), context.breakJumps)),
                LoopSpan("for", loopStart, Len(g2.bytecode), Len(g3.bytecode),
                         Len(g6.bytecode), HeaderLocals(stmt)))

\* A faulty visitBreakStmt: no test of the loop stack.
visitBreakStmtUnchecked(g, stmt) ==
    LET g1 == emitJump(g, "JUMP")
    IN  IF Len(g.loopStack) = 0 THEN g1
        ELSE [g1 EXCEPT !.loopStack[Len(g1.loopStack)].breakJumps =
                            Append(@, JumpLocation(g1))]

visitBreakStmt(g, stmt) ==
    IF Len(g.loopStack) = 0 THEN [g EXCEPT !.err = ErrBreakOutsideLoop]
    ELSE LET g1 == emitJump(g, "JUMP")
         IN  [g1 EXCEPT !.loopStack[Len(g1.loopStack)].breakJumps =
                            Append(@, JumpLocation(g1))]

\* A faulty visitContinueStmt: the jump is recorded as a break.
visitContinueStmtAsBreak(g, stmt) ==
    IF Len(g.loopStack) = 0 THEN [g EXCEPT !.err = ErrContinueOutsideLoop]
    ELSE LET g1 == emitJump(g, "JUMP")
         IN  [g1 EXCEPT !.loopStack[Len(g1.loopStack)].breakJumps =
                            Append(@, JumpLocation(g1))]

visitContinueStmt(g, stmt) ==
    IF Len(g.loopStack) = 0 THEN [g EXCEPT !.err = ErrContinueOutsideLoop]
    ELSE IF g.loopStack[Len(g.loopStack)].continueLabel # -1
         THEN emit(g, "JUMP", g.loopStack[Len(g.loopStack)].continueLabel)
    ELSE LET g1 == emitJump(g, "JUMP")
         IN  [g1 EXCEPT !.loopStack[Len(g1.loopStack)].continueJumps =
                            Append(@, JumpLocation(g1))]

\* The loop over an initializer list's elements, from element i (0-based).
RECURSIVE emitInitializerElements(_, _, _)
emitInitializerElements(g, elements, i) ==
    IF i >= Len(elements) THEN g
    ELSE emitInitializerElements(
             emit(emit(visit(emit(emit(g, "DUP", Undefined),
                                  "PUSH", createInt(i)),
                             elements[i + 1]),
                       "STORE_IDX", Undefined),
                  "POP", Undefined),
             elements, i + 1)

\* The array branch of visitVarDeclaration for one declarator.
visitArrayDeclarator(g, stmt, declarator) ==
    LET initializer == declarator.initializer
        g1 == IF Present(declarator.size) THEN visit(g, declarator.size)
              ELSE IF ~Present(initializer)
                   THEN [g EXCEPT !.err = ErrImplicitSizeNeedsInit]
              ELSE emit(g, "PUSH", createInt(Len(initializer.elements)))
        g2 == emit(g1, "ALLOC_ARR", stmt.dataType)
    IN  IF ~Present(initializer) \/ Failed(g2) THEN g2
        ELSE IF initializer.kind # "InitializerList"
             THEN [g2 EXCEPT !.err = ErrArrayNeedsInitList]
        ELSE IF Present(declarator.size) /\ declarator.size.kind = "Literal"
                /\ Len(initializer.elements) > declarator.size.value
             THEN [g2 EXCEPT !.err = ErrInitListTooLong]
        ELSE emitInitializerElements(g2, initializer.elements, 0)

visitDeclarator(g, stmt, declarator) ==
    LET isArray == Present(declarator.size)
                   \/ (Present(declarator.initializer)
                       /\ declarator.initializer.kind = "InitializerList")
        g1 == IF isArray THEN visitArrayDeclarator(g, stmt, declarator)
              ELSE IF Present(declarator.initializer)
                   THEN visit(g, declarator.initializer)
              ELSE emit(g, "PUSH", createUninitialized)
    IN  genDefine(g1, declarator.name.lexeme)

RECURSIVE visitDeclarators(_, _, _)
visitDeclarators(g, stmt, declarators) ==
    IF declarators = <<>> \/ Failed(g) THEN g
    ELSE visitDeclarators(visitDeclarator(g, stmt, Head(declarators)), stmt,
                          Tail(declarators))

visitVarDeclaration(g, stmt) == visitDeclarators(g, stmt, stmt.declarators)

visitExpressionStatement(g, stmt) == emit(visit(g, stmt.expression), "POP", Undefined)

\* A faulty table of compound operators: -= is compiled as +=.
CompoundOpcodeMinusAsPlus(type) ==
    CASE type = "PLUS_ASSIGN" -> "ADD"
      [] type = "MINUS_ASSIGN" -> "ADD"
      [] type = "STAR_ASSIGN" -> "MUL"
      [] type = "SLASH_ASSIGN" -> "DIV"
      [] type = "PERCENT_ASSIGN" -> "PERCENT"
      [] OTHER -> ""

\* The switch on a compound assignment operator.
CompoundOpcode(type) ==
    CASE type = "PLUS_ASSIGN" -> "ADD"
      [] type = "MINUS_ASSIGN" -> "SUB"
      [] type = "STAR_ASSIGN" -> "MUL"
      [] type = "SLASH_ASSIGN" -> "DIV"
      [] type = "PERCENT_ASSIGN" -> "PERCENT"
      [] OTHER -> ""

emitCompound(g, type) ==
    IF Failed(g) THEN g
    ELSE IF CompoundOpcode(type) = "" THEN [g EXCEPT !.err = ErrUnknownCompound]
    ELSE emit(g, CompoundOpcode(type), Undefined)

\* visitAssignmentExpression, target an identifier.
visitIdentifierAssignment(g, expr) ==
    LET g0 == genResolve(g, expr.target.name.lexeme)
        index == resolve(g.symbolTable, expr.target.name.lexeme)
        g1 == IF expr.operator.type = "ASSIGN" THEN visit(g0, expr.value)
              ELSE emitCompound(visit(emit(g0, "LOAD", index), expr.value),
                                expr.operator.type)
    IN  emit(g1, "STORE", index)

\* visitAssignmentExpression, target a subscript.
visitSubscriptAssignment(g, expr) ==
    LET subscript == expr.target
        address == visit(visit(g, subscript.object), subscript.index)
    IN  IF expr.operator.type = "ASSIGN"
        THEN emit(visit(address, expr.value), "STORE_IDX", Undefined)
        ELSE LET old == emit(visit(visit(address, subscript.object), subscript.index),
                             "LOAD_IDX", Undefined)
             IN  emit(emitCompound(visit(old, expr.value), expr.operator.type),
                      "STORE_IDX", Undefined)

visitAssignmentExpression(g, expr) ==
    IF expr.target.kind = "Identifier" THEN visitIdentifierAssignment(g, expr)
    ELSE IF expr.target.kind = "Subscript" THEN visitSubscriptAssignment(g, expr)
    ELSE [g EXCEPT !.err = ErrInvalidTarget]

\* A faulty update of an identifier: the postfix form is compiled as the
\* prefix form.
visitIdentifierUpdateAsPrefix(g, expr, op) ==
    LET g0 == genResolve(g, expr.argument.name.lexeme)
        index == resolve(g.symbolTable, expr.argument.name.lexeme)
    IN  emit(emit(emit(emit(g0, "LOAD", index), "PUSH", createInt(1)), op, Undefined),
             "STORE", index)

\* visitUpdateExpression, argument an identifier.
visitIdentifierUpdate(g, expr, op) ==
    LET g0 == genResolve(g, expr.argument.name.lexeme)
        index == resolve(g.symbolTable, expr.argument.name.lexeme)
    IN  IF expr.prefix
        THEN emit(emit(emit(emit(g0, "LOAD", index),
                            "PUSH", createInt(1)),
                       op, Undefined),
                  "STORE", index)
        ELSE emit(emit(emit(emit(emit(emit(g0, "LOAD", index),
                                      "DUP", Undefined),
                                 "PUSH", createInt(1)),
                            op, Undefined),
                       "STORE", index),
                  "POP", Undefined)

\* visitUpdateExpression, argument a subscript.
visitSubscriptUpdate(g, expr, op) ==
    LET subscript == expr.argument
    IN  IF expr.prefix
        THEN LET address == visit(visit(g, subscript.object), subscript.index)
                 old == emit(visit(visit(address, subscript.object), subscript.index),
                             "LOAD_IDX", Undefined)
             IN  emit(emit(emit(old, "PUSH", createInt(1)), op, Undefined),
                      "STORE_IDX", Undefined)
        ELSE LET result == emit(visit(visit(g, subscript.object), subscript.index),
                                "LOAD_IDX", Undefined)
                 address == visit(visit(result, subscript.object), subscript.index)
                 old == emit(visit(visit(address, subscript.object), subscript.index),
                             "LOAD_IDX", Undefined)
             IN  emit(emit(emit(emit(old, "PUSH", createInt(1)), op, Undefined),
                           "STORE_IDX", Undefined),
                      "POP", Undefined)

visitUpdateExpression(g, expr) ==
    LET op == IF expr.operator.type = "INC" THEN "ADD" ELSE "SUB"
    IN  IF expr.argument.kind = "Identifier" THEN visitIdentifierUpdate(g, expr, op)
        ELSE IF expr.argument.kind = "Subscript" THEN visitSubscriptUpdate(g, expr, op)
        ELSE [g EXCEPT !.err = ErrUpdateArgument]

\* The && and || branches of visitBinaryExpression.
visitLogicalExpression(g, expr, jumpInstruction) ==
    LET g1 == emitJump(visit(g, expr.left), jumpInstruction)
        endJump == JumpLocation(g1)
        g2 == patchJump(visit(emit(g1, "POP", Undefined), expr.right), endJump)
    IN  addSpan(g2, [SpanOf(expr, endJump, Len(g2.bytecode))
                     EXCEPT !.kind = "ShortCircuit"])

BinaryOpcode(type) ==
    CASE type = "PLUS" -> "ADD"
      [] type = "MINUS" -> "SUB"
      [] type = "STAR" -> "MUL"
      [] type = "SLASH" -> "DIV"
      [] type = "PERCENT" -> "PERCENT"
      [] type = "EQ" -> "EQ"
      [] type = "NEQ" -> "NEQ"
      [] type = "LT" -> "LT"
      [] type = "GT" -> "GT"
      [] type = "LTE" -> "LTE"
      [] type = "GTE" -> "GTE"
      [] OTHER -> ""

visitBinaryExpression(g, expr) ==
    IF expr.operator.type = "LOGICAL_AND"
    THEN visitLogicalExpression(g, expr, "JUMP_IF_FALSE_PEEK")
    ELSE IF expr.operator.type = "LOGICAL_OR"
    THEN visitLogicalExpression(g, expr, "JUMP_IF_TRUE_PEEK")
    ELSE LET g1 == visit(visit(g, expr.left), expr.right)
         IN  IF Failed(g1) THEN g1
             ELSE IF BinaryOpcode(expr.operator.type) = ""
                  THEN [g1 EXCEPT !.err = ErrUnknownBinary]
             ELSE emit(g1, BinaryOpcode(expr.operator.type), Undefined)

visitUnaryExpression(g, expr) ==
    LET g1 == visit(g, expr.right)
    IN  IF Failed(g1) THEN g1
        ELSE IF expr.operator.type = "MINUS" THEN emit(g1, "NEGATE", Undefined)
        ELSE IF expr.operator.type = "LOGICAL_NOT" THEN emit(g1, "NOT", Undefined)
        ELSE [g1 EXCEPT !.err = ErrUnknownUnary]

\* typeof value is "number" for the numeric literals and "boolean" for true/false.
visitLiteral(g, expr) ==
    IF expr.type \in {"INT_LITERAL", "DOUBLE_LITERAL"}
    THEN emit(g, "PUSH", createInt(expr.value))
    ELSE IF expr.type \in {"TRUE", "FALSE"}
    THEN emit(g, "PUSH", createBool(expr.value))
    ELSE emit(g, "PUSH", Null)

visitIdentifier(g, expr) ==
    emit(genResolve(g, expr.name.lexeme), "LOAD", resolve(g.symbolTable, expr.name.lexeme))

\* The dispatcher.  A visitor that throws leaves no span.
\* The span of the node just compiled, from the generator before (g) and
\* after (g1) its visit.
Visited(g, node, g1) ==
    addSpan(g1, IF node.kind \in {"BlockStmt", "ForStmt", "VarDeclaration"}
                THEN [SpanOf(node, Len(g.bytecode), Len(g1.bytecode))
                      EXCEPT !.before = g.symbolTable.locals,
                             !.after = g1.symbolTable.locals]
                ELSE SpanOf(node, Len(g.bytecode), Len(g1.bytecode)))

visit(g, node) ==
    IF Failed(g) THEN g
    ELSE LET kind == node.kind
         IN  Visited(g, node,
                  CASE kind = "Program" -> visitAll(g, node.body)
                     [] kind = "BlockStmt" -> visitBlockStatement(g, node)
                     [] kind = "VarDeclaration" -> visitVarDeclaration(g, node)
                     [] kind = "IfStmt" -> visitIfStatement(g, node)
                     [] kind = "WhileStmt" -> visitWhileStatement(g, node)
                     [] kind = "ForStmt" -> visitForStatement(g, node)
                     [] kind = "BreakStmt" -> visitBreakStmt(g, node)
                     [] kind = "ContinueStmt" -> visitContinueStmt(g, node)
                     [] kind = "EmptyStmt" -> g
                     [] kind = "ExpressionStmt" -> visitExpressionStatement(g, node)
                     [] kind = "Assignment" -> visitAssignmentExpression(g, node)
                     [] kind = "Binary" -> visitBinaryExpression(g, node)
                     [] kind = "Unary" -> visitUnaryExpression(g, node)
                     [] kind = "Update" -> visitUpdateExpression(g, node)
                     [] kind = "Literal" -> visitLiteral(g, node)
                     [] kind = "Identifier" -> visitIdentifier(g, node)
                     [] kind = "Subscript" -> visitSubscriptExpression(g, node)
                     [] OTHER -> [g EXCEPT !.err = ErrUnknownNode])

\* The span of the retained last statement, from the generator before (g1)
\* and after (g2) the visit of its expression.
Retained(g1, lastStatement, g2) ==
    addSpan(g2, [SpanOf(lastStatement, Len(g1.bytecode), Len(g2.bytecode))
                 EXCEPT !.retained = TRUE])

\* generate, the last statement: g1 is the generator after the statements
\* before it.
generateLast(g1, lastStatement) ==
    IF lastStatement.kind = "ExpressionStmt"
    THEN Retained(g1, lastStatement, visit(g1, lastStatement.expression))
    ELSE visit(g1, lastStatement)

\* generate, after the reset.
generateBody(g0, body) ==
    IF body = <<>> THEN g0
    ELSE generateLast(visitAll(g0, SubSeq(body, 1, Len(body) - 1)), body[Len(body)])

\* A faulty generate: the last statement is compiled like the others, its
\* value popped.
generateDiscarding(g, program) ==
    visitAll([g EXCEPT !.bytecode = <<>>, !.symbolTable = NewSymbolTable,
                       !.err = NoError, !.spans = <<>>, !.patches = <<>>],
             program.body)

\* generate resets the bytecode and the symbol table, and nothing else.  The
\* last statement, when it is an expression statement, keeps its value: only
\* its expression is compiled.
generate(g, program) ==
    generateBody([g EXCEPT !.bytecode = <<>>, !.symbolTable = NewSymbolTable,
                           !.err = NoError, !.spans = <<>>, !.patches = <<>>],
                 program.body)

\* compile(source) after parsing: a fresh generator for every compilation.
compile(ast) == generate(NewCodeGenerator, ast)

(***************************************************************************)
(* The generator run() and its driver runToEnd().  A generator object is   *)
(* "suspendedStart" before its first next(), "suspendedYield" at the yield *)
(* after an instruction, and "completed" once it has returned or thrown.   *)
(* All machine state lives in the VirtualMachine object, so a generator    *)
(* created later continues from the machine's current ip.                  *)
(***************************************************************************)
\* A faulty run(): no yield after an unconditional jump.
YieldsAfterExceptJump(instruction) == instruction.opcode # "JUMP"

\* Line 357: the yield after the switch, reached after every instruction.
YieldsAfter(instruction) == TRUE

\* One resumption of the body of run(): from the loop test to the next yield,
\* return or throw.  n counts the instructions fetched so far in this call.
RECURSIVE Resume(_, _, _)

\* run() after the switch: m1 is the machine after the instruction at m.ip.
Executed(bytecode, m, n, m1) ==
    IF Failed(m1)
    THEN [m |-> m1, outcome |-> "throw", value |-> Undefined,
          fetched |-> n + 1, last |-> m.ip]
    ELSE IF YieldsAfter(Fetch(bytecode, m))
    THEN [m |-> m1, outcome |-> "yield", value |-> Undefined,
          fetched |-> n + 1, last |-> m.ip]
    ELSE Resume(bytecode, m1, n + 1)

Resume(bytecode, m, n) ==
    IF m.ip < Len(bytecode)
    THEN IF m.ip < 0
         THEN [m |-> Throw(m, ErrTypeError), outcome |-> "throw", value |-> Undefined,
               fetched |-> n, last |-> m.ip]
         ELSE Executed(bytecode, m, n, Execute(AfterFetch(m), Fetch(bytecode, m)))
    ELSE [m |-> m, outcome |-> "return",
          value |-> IF m.sp > m.bp THEN Popped(m) ELSE Null, fetched |-> n,
          last |-> -1]

\* gen.next(): a completed generator answers {done: true, value: undefined}
\* and runs nothing.
GeneratorNext(bytecode, genState, m) ==
    IF genState = "completed"
    THEN [m |-> m, outcome |-> "return", value |-> Undefined, fetched |-> 0,
          last |-> -1]
    ELSE Resume(bytecode, m, 0)

GeneratorAfter(outcome) == IF outcome = "yield" THEN "suspendedYield" ELSE "completed"

(***************************************************************************)
(* History kept beside a machine to state properties of whole statements:  *)
(* for every span of the bytecode, the stack pointer (and, for an update   *)
(* of an identifier, the variable's value; for the jump of a short-circuit *)
(* operator, the left operand's value) when control last entered it, the   *)
(* numbers of instructions fetched, of yields and of throws so far, and    *)
(* the address of the instruction fetched last.                            *)
(***************************************************************************)
Inactive == [sp |-> -1, old |-> Null]

IsIdentifierUpdate(span) == span.kind = "Update" /\ span.target = "Identifier"

\* The slot an identifier update works on: the operand of its first LOAD.
UpdateSlot(bytecode, span) == bytecode[span.start + 1].operand

Inside(span, e, ip) == e.sp # -1 /\ span.start <= ip /\ ip < span.end

EntryAt(bytecode, span, m) ==
    [sp |-> m.sp,
     old |-> IF IsIdentifierUpdate(span) /\ span.start < span.end
             THEN SlotRead(m.stack, m.bp + UpdateSlot(bytecode, span))
             ELSE IF span.kind = "ShortCircuit" THEN SlotRead(m.stack, m.sp - 1)
             ELSE Null]

NextEntry(bytecode, span, e, ipOld, m) ==
    IF Inside(span, e, ipOld)
    THEN IF span.start <= m.ip /\ m.ip <= span.end THEN e ELSE Inactive
    ELSE IF m.ip = span.start THEN EntryAt(bytecode, span, m)
    ELSE Inactive

NewMonitor(bytecode, spans) ==
    [entry |-> [i \in 1..Len(spans) |->
                   IF spans[i].start = 0 THEN EntryAt(bytecode, spans[i], NewMachine)
                   ELSE Inactive],
     fetched |-> 0, yields |-> 0, throws |-> 0, last |-> -1]

\* A call in progress: the machine, the generator driving it, the monitor,
\* and the outcome of the last next().
Call(m, genState, monitor) ==
    [m |-> m, gen |-> genState, mon |-> monitor, outcome |-> "none",
     value |-> Undefined]

\* The call after a next() that answered r.
Answered(bytecode, spans, c, r) ==
        [m |-> r.m, gen |-> GeneratorAfter(r.outcome),
         mon |-> [entry |-> IF r.fetched = 0 THEN c.mon.entry
                            ELSE [i \in 1..Len(spans) |->
                                     IF r.outcome = "throw" THEN Inactive
                                     ELSE NextEntry(bytecode, spans[i], c.mon.entry[i],
                                                    c.m.ip, r.m)],
                  fetched |-> c.mon.fetched + r.fetched,
                  yields |-> c.mon.yields + (IF r.outcome = "yield" THEN 1 ELSE 0),
                  throws |-> c.mon.throws + (IF r.outcome = "throw" THEN 1 ELSE 0),
                  last |-> IF r.fetched = 0 THEN c.mon.last ELSE r.last],
         outcome |-> r.outcome, value |-> r.value]

NextOnce(bytecode, spans, c) ==
    Answered(bytecode, spans, c,
             GeneratorNext(bytecode, c.gen, [c.m EXCEPT !.err = NoError]))

\* The loop of runToEnd() is unrolled 2^MaxRun times.
MaxRun == 8

\* runToEnd(): next() until done (or until next() throws).  runLoop makes up
\* to 2^k calls of next(), stopping at the first that does not yield.
RECURSIVE runLoop(_, _, _, _)
runLoop(bytecode, spans, c, k) ==
    IF c.outcome \notin {"none", "yield"} THEN c
    ELSE IF k = 0 THEN NextOnce(bytecode, spans, c)
    ELSE runLoop(bytecode, spans, runLoop(bytecode, spans, c, k - 1), k - 1)

runToEnd(bytecode, spans, m, monitor) ==
    runLoop(bytecode, spans, Call(m, "suspendedStart", monitor), MaxRun)

\* What the host got from its last call.
ResultOf(call, c) ==
    [call |-> call, outcome |-> c.outcome, value |-> c.value, error |-> c.m.err]

NoResult == [call |-> "none", outcome |-> "none", value |-> Undefined, error |-> NoError]

(***************************************************************************)
(* The source programs the model compiles and runs, as the ASTs the parser *)
(* builds for them.  A program is named by a descriptor                    *)
(*   [fam, a, b, op, f]                                                    *)
(* whose family fam fixes the program text and whose other fields fill its *)
(* holes.                                                                  *)
(***************************************************************************)
MaxLoop == 3

MaxInt == 7

MaxVal == 2

Desc(fam, a, b, op, f) == [fam |-> fam, a |-> a, b |-> b, op |-> op, f |-> f]

\* The expression the parser builds for the integer n written in decimal.
IntExpr(n) == IF n < 0 THEN Unary("MINUS", IntLiteral(-n)) ELSE IntLiteral(n)

DeclareInt(x, init) == VarDeclaration("INT", <<Declarator(x, Absent, init)>>)

DeclareArray(x, size, init) == VarDeclaration("INT", <<Declarator(x, size, init)>>)

Set(x, e) == ExpressionStmt(Assignment(Identifier(x), "ASSIGN", e))

Plus(l, r) == Binary(l, "PLUS", r)

\* 1 / 0 > 0
DivByZeroTest == Binary(Binary(IntLiteral(1), "SLASH", IntLiteral(0)), "GT", IntLiteral(0))

\* int i = 0, s = 0; while (i < a) { s = s + i; i = i + 1; } s;
WhileSumProgram(d) ==
    Program(<<VarDeclaration("INT", <<Declarator("i", Absent, IntLiteral(0)),
                                      Declarator("s", Absent, IntLiteral(0))>>),
              WhileStmt(Binary(Identifier("i"), "LT", IntLiteral(d.a)),
                        BlockStmt(<<Set("s", Plus(Identifier("s"), Identifier("i"))),
                                    Set("i", Plus(Identifier("i"), IntLiteral(1)))>>)),
              ExpressionStmt(Identifier("s"))>>)

\* int s = 0; for (int i = 0; i < a; i++) { if (i == b) <break or continue>; s = s + i; } s;
ForJumpProgram(d) ==
    Program(<<DeclareInt("s", IntLiteral(0)),
              ForStmt(DeclareInt("i", IntLiteral(0)),
                      Binary(Identifier("i"), "LT", IntLiteral(d.a)),
                      Update("INC", Identifier("i"), FALSE),
                      BlockStmt(<<IfStmt(Binary(Identifier("i"), "EQ", IntLiteral(d.b)),
                                         BlockStmt(<<IF d.f THEN BreakStmt ELSE ContinueStmt>>),
                                         Absent),
                                  Set("s", Plus(Identifier("s"), Identifier("i")))>>)),
              ExpressionStmt(Identifier("s"))>>)

\* int i = 0; int s = 0;
\* while (i < a) { i++; if (i == b) { <break or continue> } s = s + i; } s;
WhileJumpProgram(d) ==
    Program(<<DeclareInt("i", IntLiteral(0)),
              DeclareInt("s", IntLiteral(0)),
              WhileStmt(Binary(Identifier("i"), "LT", IntLiteral(d.a)),
                        BlockStmt(<<ExpressionStmt(Update("INC", Identifier("i"), FALSE)),
                                    IfStmt(Binary(Identifier("i"), "EQ", IntLiteral(d.b)),
                                           BlockStmt(<<IF d.f THEN BreakStmt ELSE ContinueStmt>>),
                                           Absent),
                                    Set("s", Plus(Identifier("s"), Identifier("i")))>>)),
              ExpressionStmt(Identifier("s"))>>)

\* int s = 0;
\* for (int i = 0; i < a; i++) { for (int j = 0; j < a; j++) { if (j == b) <break or continue>; s++; } } s;
NestedLoopProgram(d) ==
    Program(<<DeclareInt("s", IntLiteral(0)),
              ForStmt(DeclareInt("i", IntLiteral(0)),
                      Binary(Identifier("i"), "LT", IntLiteral(d.a)),
                      Update("INC", Identifier("i"), FALSE),
                      BlockStmt(<<
                        ForStmt(DeclareInt("j", IntLiteral(0)),
                                Binary(Identifier("j"), "LT", IntLiteral(d.a)),
                                Update("INC", Identifier("j"), FALSE),
                                BlockStmt(<<
                                  IfStmt(Binary(Identifier("j"), "EQ", IntLiteral(d.b)),
                                         BlockStmt(<<IF d.f THEN BreakStmt ELSE ContinueStmt>>),
                                         Absent),
                                  ExpressionStmt(Update("INC", Identifier("s"), FALSE))>>))>>)),
              ExpressionStmt(Identifier("s"))>>)

\* int arr[3] = {10, 20}; arr[2] = arr[0] + arr[1]; arr[2]++;
\* int sum = 0; for (int i = 0; i < 3; i++) sum += arr[i]; sum;
ArrayProgram(d) ==
    Program(<<DeclareArray("arr", IntLiteral(3),
                           InitializerList(<<IntLiteral(10), IntLiteral(20)>>)),
              ExpressionStmt(Assignment(Subscript(Identifier("arr"), IntLiteral(2)), "ASSIGN",
                                        Plus(Subscript(Identifier("arr"), IntLiteral(0)),
                                             Subscript(Identifier("arr"), IntLiteral(1))))),
              ExpressionStmt(Update("INC", Subscript(Identifier("arr"), IntLiteral(2)), FALSE)),
              DeclareInt("sum", IntLiteral(0)),
              ForStmt(DeclareInt("i", IntLiteral(0)),
                      Binary(Identifier("i"), "LT", IntLiteral(3)),
                      Update("INC", Identifier("i"), FALSE),
                      ExpressionStmt(Assignment(Identifier("sum"), "PLUS_ASSIGN",
                                                Subscript(Identifier("arr"), Identifier("i"))))),
              ExpressionStmt(Identifier("sum"))>>)

\* bool r = L op R; r;   with L = (a = 1), op && or ||, and R either
\* (1 / 0 > 0) (f) or the literal (b = 1).
LogicalProgram(d) ==
    Program(<<VarDeclaration("BOOL",
                  <<Declarator("r", Absent,
                               Binary(BoolLiteral(d.a = 1), d.op,
                                      IF d.f THEN DivByZeroTest ELSE BoolLiteral(d.b = 1)))>>),
              ExpressionStmt(Identifier("r"))>>)

\* int i = a; int j = <update of i> + i; j;
UpdateProgram(d) ==
    Program(<<DeclareInt("i", IntExpr(d.a)),
              DeclareInt("j", Plus(Update(d.op, Identifier("i"), d.f), Identifier("i"))),
              ExpressionStmt(Identifier("j"))>>)

\* b = 0:  int a; int b = a + 1;
\* b = 1:  int a; int b; b = a;
\* b = 2:  int a; int b = a; b;
\* b = 3:  int a; a = 5; a;
UninitializedProgram(d) ==
    CASE d.b = 0 -> Program(<<DeclareInt("a", Absent),
                              DeclareInt("b", Plus(Identifier("a"), IntLiteral(1)))>>)
      [] d.b = 1 -> Program(<<DeclareInt("a", Absent), DeclareInt("b", Absent),
                              Set("b", Identifier("a"))>>)
      [] d.b = 2 -> Program(<<DeclareInt("a", Absent), DeclareInt("b", Identifier("a")),
                              ExpressionStmt(Identifier("b"))>>)
      [] OTHER -> Program(<<DeclareInt("a", Absent), Set("a", IntLiteral(5)),
                            ExpressionStmt(Identifier("a"))>>)

\* int arr[3]; arr[a] = 10;   (f)      int arr[3]; arr[a];   (not f)
OutOfBoundsProgram(d) ==
    Program(<<DeclareArray("arr", IntLiteral(3), Absent),
              IF d.f
              THEN ExpressionStmt(Assignment(Subscript(Identifier("arr"), IntExpr(d.a)),
                                             "ASSIGN", IntLiteral(10)))
              ELSE ExpressionStmt(Subscript(Identifier("arr"), IntExpr(d.a)))>>)

\* int a = <a>; int b = 10; { int a = <b>; b = a; } int c = a + b; c;
ShadowBlockProgram(d) ==
    Program(<<DeclareInt("a", IntExpr(d.a)),
              DeclareInt("b", IntLiteral(10)),
              BlockStmt(<<DeclareInt("a", IntExpr(d.b)), Set("b", Identifier("a"))>>),
              DeclareInt("c", Plus(Identifier("a"), Identifier("b"))),
              ExpressionStmt(Identifier("c"))>>)

\* int i = <a>; for (int i = 0; i < b; i++) { } i;
ShadowForProgram(d) ==
    Program(<<DeclareInt("i", IntExpr(d.a)),
              ForStmt(DeclareInt("i", IntLiteral(0)),
                      Binary(Identifier("i"), "LT", IntLiteral(d.b)),
                      Update("INC", Identifier("i"), FALSE),
                      BlockStmt(<<>>)),
              ExpressionStmt(Identifier("i"))>>)

\* <a> op <b>;
DivModProgram(d) == Program(<<ExpressionStmt(Binary(IntExpr(d.a), d.op, IntExpr(d.b)))>>)

\* The binary operator a compound assignment operator stands for.
PlainOperator(op) ==
    CASE op = "PLUS_ASSIGN" -> "PLUS"
      [] op = "MINUS_ASSIGN" -> "MINUS"
      [] op = "STAR_ASSIGN" -> "STAR"
      [] op = "SLASH_ASSIGN" -> "SLASH"
      [] op = "PERCENT_ASSIGN" -> "PERCENT"

CompoundTarget(d) ==
    IF d.f THEN Subscript(Identifier("t"), IntLiteral(1)) ELSE Identifier("t")

CompoundDeclaration(d) ==
    IF d.f
    THEN DeclareArray("t", IntLiteral(2), InitializerList(<<IntLiteral(0), IntExpr(d.a)>>))
    ELSE DeclareInt("t", IntExpr(d.a))

\* int t = <a>; t op= <b>;        or, with f,  int t[2] = {0, <a>}; t[1] op= <b>;
CompoundProgram(d) ==
    Program(<<CompoundDeclaration(d),
              ExpressionStmt(Assignment(CompoundTarget(d), d.op, IntExpr(d.b)))>>)

\* int t = <a>; t = t op <b>;     or, with f,  int t[2] = {0, <a>}; t[1] = t[1] op <b>;
ExpandedProgram(d) ==
    Program(<<CompoundDeclaration(d),
              ExpressionStmt(Assignment(CompoundTarget(d), "ASSIGN",
                                        Binary(CompoundTarget(d), PlainOperator(d.op),
                                               IntExpr(d.b))))>>)

\* b = 0:  int n = 0; while (n < a) { int t = n; n = n + 1; if (t == 0) continue; } n;
\* b = 1:  int n = 0; while (n < a) { int t = n; n = n + 1; if (t == 0) break; } n;
\* b = 2:  int n = 0; for (int i = 0; i < a; i++) { int t = i; if (t == 0) continue; n = n + 1; } n;
\* b = 3:  int n = 0; for (int i = 0; i < a; i++) { int t = i; if (t == 0) break; n = n + 1; } n;
LocalInLoopProgram(d) ==
    LET jump == IfStmt(Binary(Identifier("t"), "EQ", IntLiteral(0)),
                       IF d.b \in {1, 3} THEN BreakStmt ELSE ContinueStmt, Absent)
        bump == Set("n", Plus(Identifier("n"), IntLiteral(1)))
    IN  IF d.b \in {0, 1}
        THEN Program(<<DeclareInt("n", IntLiteral(0)),
                       WhileStmt(Binary(Identifier("n"), "LT", IntLiteral(d.a)),
                                 BlockStmt(<<DeclareInt("t", Identifier("n")), bump, jump>>)),
                       ExpressionStmt(Identifier("n"))>>)
        ELSE Program(<<DeclareInt("n", IntLiteral(0)),
                       ForStmt(DeclareInt("i", IntLiteral(0)),
                               Binary(Identifier("i"), "LT", IntLiteral(d.a)),
                               Update("INC", Identifier("i"), FALSE),
                               BlockStmt(<<DeclareInt("t", Identifier("i")), jump, bump>>)),
                       ExpressionStmt(Identifier("n"))>>)

\* int a = <a>; if (a > 0) { a = 20; } else { a = 1; } a;      (else only with f)
IfProgram(d) ==
    Program(<<DeclareInt("a", IntExpr(d.a)),
              IfStmt(Binary(Identifier("a"), "GT", IntLiteral(0)),
                     BlockStmt(<<Set("a", IntLiteral(20))>>),
                     IF d.f THEN BlockStmt(<<Set("a", IntLiteral(1))>>) ELSE Absent),
              ExpressionStmt(Identifier("a"))>>)

\* b = 0:  (nothing)      b = 1:  { int a = 1; }
\* b = 2:  int a = 1;     b = 3:  int a = 1; int b = 5; a + b;
TailProgram(d) ==
    CASE d.b = 0 -> Program(<<>>)
      [] d.b = 1 -> Program(<<BlockStmt(<<DeclareInt("a", IntLiteral(1))>>)>>)
      [] d.b = 2 -> Program(<<DeclareInt("a", IntLiteral(1))>>)
      [] OTHER -> Program(<<DeclareInt("a", IntLiteral(1)), DeclareInt("b", IntLiteral(5)),
                            ExpressionStmt(Plus(Identifier("a"), Identifier("b")))>>)

\* int a = 0; int b = 1; int c = <a>; a = b = c;   followed by nothing
\* (b = 0), by "a;" (b = 1) or by "b;" (b = 2).  With f, c is the boolean
\* <a = 1>.
ChainProgram(d) ==
    Program(<<DeclareInt("a", IntLiteral(0)), DeclareInt("b", IntLiteral(1)),
              DeclareInt("c", IF d.f THEN BoolLiteral(d.a = 1) ELSE IntExpr(d.a)),
              ExpressionStmt(Assignment(Identifier("a"), "ASSIGN",
                                        Assignment(Identifier("b"), "ASSIGN",
                                                   Identifier("c"))))>>
            \o (CASE d.b = 0 -> <<>>
                  [] d.b = 1 -> <<ExpressionStmt(Identifier("a"))>>
                  [] OTHER -> <<ExpressionStmt(Identifier("b"))>>))

\* b = 0:  int p[1] = {7}; int q[2]; q[1] = p[0]; q[1];
\* b = 1:  int i = 0; while (i < 2) { int t[2]; t[i] = i + 1; i++; } i;
\* b = 2:  int p[1]; int q[1]; q[0] = p; q[0][0] = 5; p[0];
\* b = 3:  int u; int q[1]; q[0] = u;
\* b = 4:  int u; int q[1] = {u};
HeapProgram(d) ==
    LET at(x, i) == Subscript(Identifier(x), i)
        put(target, e) == ExpressionStmt(Assignment(target, "ASSIGN", e))
    IN  CASE d.b = 0 ->
               Program(<<DeclareArray("p", IntLiteral(1), InitializerList(<<IntLiteral(7)>>)),
                         DeclareArray("q", IntLiteral(2), Absent),
                         put(at("q", IntLiteral(1)), at("p", IntLiteral(0))),
                         ExpressionStmt(at("q", IntLiteral(1)))>>)
          [] d.b = 1 ->
               Program(<<DeclareInt("i", IntLiteral(0)),
                         WhileStmt(Binary(Identifier("i"), "LT", IntLiteral(2)),
                                   BlockStmt(<<DeclareArray("t", IntLiteral(2), Absent),
                                               put(at("t", Identifier("i")),
                                                   Plus(Identifier("i"), IntLiteral(1))),
                                               ExpressionStmt(Update("INC", Identifier("i"),
                                                                     FALSE))>>)),
                         ExpressionStmt(Identifier("i"))>>)
          [] d.b = 2 ->
               Program(<<DeclareArray("p", IntLiteral(1), Absent),
                         DeclareArray("q", IntLiteral(1), Absent),
                         put(at("q", IntLiteral(0)), Identifier("p")),
                         put(Subscript(at("q", IntLiteral(0)), IntLiteral(0)), IntLiteral(5)),
                         ExpressionStmt(at("p", IntLiteral(0)))>>)
          [] d.b = 3 ->
               Program(<<DeclareInt("u", Absent),
                         DeclareArray("q", IntLiteral(1), Absent),
                         put(at("q", IntLiteral(0)), Identifier("u"))>>)
          [] OTHER ->
               Program(<<DeclareInt("u", Absent),
                         DeclareArray("q", IntLiteral(1),
                                      InitializerList(<<Identifier("u")>>))>>)

\* The operands of a short-circuit operator: false, true, 5, or the
\* unassigned variable u.
LogicalOperand(n) ==
    CASE n = 0 -> BoolLiteral(FALSE)
      [] n = 1 -> BoolLiteral(TRUE)
      [] n = 2 -> IntLiteral(5)
      [] OTHER -> Identifier("u")

\* int u; L op R;   with op && or ||.
MixedLogicalProgram(d) ==
    Program(<<DeclareInt("u", Absent),
              ExpressionStmt(Binary(LogicalOperand(d.a), d.op, LogicalOperand(d.b)))>>)

\* The index of a read-modify-write program: i++ (f) or i.
RmwIndex(d) == IF d.f THEN Update("INC", Identifier("i"), FALSE) ELSE Identifier("i")

\* The read-modify-write of arr[<index>]: += 5, prefix ++ or postfix ++.
RmwExpression(d) ==
    CASE d.op = "compound" ->
           Assignment(Subscript(Identifier("arr"), RmwIndex(d)), "PLUS_ASSIGN", IntLiteral(5))
      [] d.op = "prefix" -> Update("INC", Subscript(Identifier("arr"), RmwIndex(d)), TRUE)
      [] OTHER -> Update("INC", Subscript(Identifier("arr"), RmwIndex(d)), FALSE)

\* int arr[4] = {10, 20, 30, 40}; int i = 0; <read-modify-write>;
\* followed by nothing (b = 0) or by "i;" (b = 1).
RmwProgram(d) ==
    Program(<<DeclareArray("arr", IntLiteral(4),
                           InitializerList(<<IntLiteral(10), IntLiteral(20), IntLiteral(30),
                                             IntLiteral(40)>>)),
              DeclareInt("i", IntLiteral(0)),
              ExpressionStmt(RmwExpression(d))>>
            \o (IF d.b = 1 THEN <<ExpressionStmt(Identifier("i"))>> ELSE <<>>))

\* The tested expression of a condition program: the literal <a>, or with
\* op = "uninitialized" the variable c of "bool c;".
ConditionTest(d) == IF d.op = "uninitialized" THEN Identifier("c") ELSE IntLiteral(d.a)

\* bool c; int r = 0; followed by
\* b = 0:  if (<test>) { r = 1; } r;
\* b = 1:  while (<test>) { r = 1; break; } r;
\* b = 2:  for (; <test>;) { r = 1; break; } r;
\* b = 3:  <test> && true;
\* b = 4:  <test> || true;
ConditionProgram(d) ==
    Program(<<VarDeclaration("BOOL", <<Declarator("c", Absent, Absent)>>),
              DeclareInt("r", IntLiteral(0))>>
            \o (CASE d.b = 0 -> <<IfStmt(ConditionTest(d),
                                         BlockStmt(<<Set("r", IntLiteral(1))>>), Absent),
                                  ExpressionStmt(Identifier("r"))>>
                  [] d.b = 1 -> <<WhileStmt(ConditionTest(d),
                                            BlockStmt(<<Set("r", IntLiteral(1)), BreakStmt>>)),
                                  ExpressionStmt(Identifier("r"))>>
                  [] d.b = 2 -> <<ForStmt(Absent, ConditionTest(d), Absent,
                                          BlockStmt(<<Set("r", IntLiteral(1)), BreakStmt>>)),
                                  ExpressionStmt(Identifier("r"))>>
                  [] d.b = 3 -> <<ExpressionStmt(Binary(ConditionTest(d), "LOGICAL_AND",
                                                        BoolLiteral(TRUE)))>>
                  [] OTHER -> <<ExpressionStmt(Binary(ConditionTest(d), "LOGICAL_OR",
                                                      BoolLiteral(TRUE)))>>))

\* b = 0:  !<a>;             b = 1:  !true; (a = 1) or !false; (a = 0)
\* b = 2:  int arr[1]; !arr;  b = 3:  int x; !x;
NotProgram(d) ==
    CASE d.b = 0 -> Program(<<ExpressionStmt(Unary("LOGICAL_NOT", IntExpr(d.a)))>>)
      [] d.b = 1 -> Program(<<ExpressionStmt(Unary("LOGICAL_NOT", BoolLiteral(d.a = 1)))>>)
      [] d.b = 2 -> Program(<<DeclareArray("arr", IntLiteral(1), Absent),
                              ExpressionStmt(Unary("LOGICAL_NOT", Identifier("arr")))>>)
      [] OTHER -> Program(<<DeclareInt("x", Absent),
                            ExpressionStmt(Unary("LOGICAL_NOT", Identifier("x")))>>)

\* The first n elements of an initializer list for an array of the type:
\* 1, 2, 3 for int and true, true, true for bool.
RECURSIVE ListElements(_, _)
ListElements(type, n) ==
    IF n = 0 THEN <<>>
    ELSE Append(ListElements(type, n - 1),
                IF type = "BOOL" THEN BoolLiteral(TRUE) ELSE IntLiteral(n))

\* <op> arr[<a>] = {<b elements>}; arr[<a> - 1];     with <op> int or bool
ArrayFillProgram(d) ==
    Program(<<VarDeclaration(d.op, <<Declarator("arr", IntLiteral(d.a),
                                                InitializerList(ListElements(d.op, d.b)))>>),
              ExpressionStmt(Subscript(Identifier("arr"), IntLiteral(d.a - 1)))>>)

\* The declared size <a> of an initializer-list program as it is written:
\* the literal, the sum <a> + 0, or the variable n of "int n = <a>;".
DeclaredSize(d) ==
    CASE d.op = "literal" -> IntLiteral(d.a)
      [] d.op = "sum" -> Plus(IntLiteral(d.a), IntLiteral(0))
      [] OTHER -> Identifier("n")

\* int n = <a>; int arr[<size>] = {1, .., <b>};
InitListProgram(d) ==
    Program(<<DeclareInt("n", IntLiteral(d.a)),
              DeclareArray("arr", DeclaredSize(d), InitializerList(ListElements("INT", d.b)))>>)

\* The jump statement of a stray-jump program.
JumpStmt(d) == IF d.f THEN BreakStmt ELSE ContinueStmt

\* With J the statement "break;" (f) or "continue;":
\* b = 0:  J                              b = 1:  { J }
\* b = 2:  if (true) J                    b = 3:  while (false) { } J
\* b = 4:  for (; false;) { } J           b = 5:  if (false) { } else { J }
\* b = 6:  int i = 0; while (i < 1) { i++; { if (true) { { J } } } } i;
\* b = 7:  int i = 0; for (; i < 1; i++) { { if (true) { J } } } i;
\* b = 8:  int i = 0; while (i < 1) { i++; for (;;) { break; } J } i;
StrayJumpProgram(d) ==
    CASE d.b = 0 -> Program(<<JumpStmt(d)>>)
      [] d.b = 1 -> Program(<<BlockStmt(<<JumpStmt(d)>>)>>)
      [] d.b = 2 -> Program(<<IfStmt(BoolLiteral(TRUE), JumpStmt(d), Absent)>>)
      [] d.b = 3 -> Program(<<WhileStmt(BoolLiteral(FALSE), BlockStmt(<<>>)), JumpStmt(d)>>)
      [] d.b = 4 -> Program(<<ForStmt(Absent, BoolLiteral(FALSE), Absent, BlockStmt(<<>>)),
                              JumpStmt(d)>>)
      [] d.b = 5 -> Program(<<IfStmt(BoolLiteral(FALSE), BlockStmt(<<>>),
                                     BlockStmt(<<JumpStmt(d)>>))>>)
      [] d.b = 6 ->
           Program(<<DeclareInt("i", IntLiteral(0)),
                     WhileStmt(Binary(Identifier("i"), "LT", IntLiteral(1)),
                               BlockStmt(<<ExpressionStmt(Update("INC", Identifier("i"), FALSE)),
                                           BlockStmt(<<IfStmt(BoolLiteral(TRUE),
                                                              BlockStmt(<<BlockStmt(<<JumpStmt(d)>>)>>),
                                                              Absent)>>)>>)),
                     ExpressionStmt(Identifier("i"))>>)
      [] d.b = 7 ->
           Program(<<DeclareInt("i", IntLiteral(0)),
                     ForStmt(Absent, Binary(Identifier("i"), "LT", IntLiteral(1)),
                             Update("INC", Identifier("i"), FALSE),
                             BlockStmt(<<BlockStmt(<<IfStmt(BoolLiteral(TRUE),
                                                            BlockStmt(<<JumpStmt(d)>>),
                                                            Absent)>>)>>)),
                     ExpressionStmt(Identifier("i"))>>)
      [] OTHER ->
           Program(<<DeclareInt("i", IntLiteral(0)),
                     WhileStmt(Binary(Identifier("i"), "LT", IntLiteral(1)),
                               BlockStmt(<<ExpressionStmt(Update("INC", Identifier("i"), FALSE)),
                                           ForStmt(Absent, Absent, Absent,
                                                   BlockStmt(<<BreakStmt>>)),
                                           JumpStmt(d)>>)),
                     ExpressionStmt(Identifier("i"))>>)

Ast(d) ==
    CASE d.fam = "whileSum" -> WhileSumProgram(d)
      [] d.fam = "forJump" -> ForJumpProgram(d)
      [] d.fam = "whileJump" -> WhileJumpProgram(d)
      [] d.fam = "nestedLoop" -> NestedLoopProgram(d)
      [] d.fam = "array" -> ArrayProgram(d)
      [] d.fam = "logical" -> LogicalProgram(d)
      [] d.fam = "update" -> UpdateProgram(d)
      [] d.fam = "uninitialized" -> UninitializedProgram(d)
      [] d.fam = "outOfBounds" -> OutOfBoundsProgram(d)
      [] d.fam = "shadowBlock" -> ShadowBlockProgram(d)
      [] d.fam = "shadowFor" -> ShadowForProgram(d)
      [] d.fam = "divMod" -> DivModProgram(d)
      [] d.fam = "compound" -> CompoundProgram(d)
      [] d.fam = "localInLoop" -> LocalInLoopProgram(d)
      [] d.fam = "if" -> IfProgram(d)
      [] d.fam = "tail" -> TailProgram(d)
      [] d.fam = "condition" -> ConditionProgram(d)
      [] d.fam = "not" -> NotProgram(d)
      [] d.fam = "arrayFill" -> ArrayFillProgram(d)
      [] d.fam = "initList" -> InitListProgram(d)
      [] d.fam = "strayJump" -> StrayJumpProgram(d)
      [] d.fam = "chain" -> ChainProgram(d)
      [] d.fam = "heap" -> HeapProgram(d)
      [] d.fam = "rmw" -> RmwProgram(d)
      [] d.fam = "mixedLogical" -> MixedLogicalProgram(d)

\* The program the second machine runs: the expansion of a compound assignment.
HasTwin(d) == d.fam = "compound"

TwinAst(d) == ExpandedProgram(d)

CompoundOperators ==
    {"PLUS_ASSIGN", "MINUS_ASSIGN", "STAR_ASSIGN", "SLASH_ASSIGN", "PERCENT_ASSIGN"}

Programs ==
         {Desc("whileSum", a, 0, "", FALSE) : a \in 0..MaxLoop}
    \cup {Desc("forJump", MaxLoop, b, "", f) : b \in 0..MaxLoop, f \in BOOLEAN}
    \cup {Desc("whileJump", MaxLoop, b, "", f) : b \in 1..MaxLoop, f \in BOOLEAN}
    \cup {Desc("nestedLoop", 2, 1, "", f) : f \in BOOLEAN}
    \cup {Desc("array", 0, 0, "", FALSE)}
    \cup {Desc("logical", a, b, op, f) :
             a \in 0..1, b \in 0..1, op \in {"LOGICAL_AND", "LOGICAL_OR"}, f \in BOOLEAN}
    \cup {Desc("update", a, 0, op, f) :
             a \in -MaxVal..MaxVal, op \in {"INC", "DEC"}, f \in BOOLEAN}
    \cup {Desc("uninitialized", 0, b, "", FALSE) : b \in 0..3}
    \cup {Desc("outOfBounds", a, 0, "", f) : a \in -1..3, f \in BOOLEAN}
    \cup {Desc("shadowBlock", a, b, "", FALSE) : a \in 0..MaxVal, b \in 0..MaxVal}
    \cup {Desc("shadowFor", a, b, "", FALSE) : a \in -MaxVal..MaxVal, b \in 0..1}
    \cup {Desc("divMod", a, b, op, FALSE) :
             a \in -MaxInt..MaxInt, b \in -MaxInt..MaxInt, op \in {"SLASH", "PERCENT"}}
    \cup {Desc("compound", a, b, op, f) :
             a \in -MaxVal..MaxVal, b \in -MaxVal..MaxVal, op \in CompoundOperators,
             f \in BOOLEAN}
    \cup {Desc("localInLoop", a, b, "", FALSE) : a \in 1..2, b \in 0..3}
    \cup {Desc("if", a, 0, "", f) : a \in 0..1, f \in BOOLEAN}
    \cup {Desc("tail", 0, b, "", FALSE) : b \in 0..3}
    \cup {Desc("condition", a, b, "literal", FALSE) : a \in 0..1, b \in 0..4}
    \cup {Desc("condition", 0, b, "uninitialized", FALSE) : b \in 0..4}
    \cup {Desc("not", a, 0, "", FALSE) : a \in -1..1}
    \cup {Desc("not", a, 1, "", FALSE) : a \in 0..1}
    \cup {Desc("not", 0, b, "", FALSE) : b \in 2..3}
    \cup {Desc("arrayFill", a, b, op, FALSE) :
             a \in 1..MaxVal, b \in 0..MaxVal, op \in {"INT", "BOOL"}}
    \cup {Desc("initList", a, b, op, FALSE) :
             a \in 0..MaxVal, b \in 0..(MaxVal + 1), op \in {"literal", "sum", "variable"}}
    \cup {Desc("strayJump", 0, b, "", f) : b \in 0..8, f \in BOOLEAN}
    \cup {Desc("chain", a, b, "", f) : a \in 0..MaxVal, b \in 0..2, f \in BOOLEAN}
    \cup {Desc("heap", 0, b, "", FALSE) : b \in 0..4}
    \cup {Desc("rmw", 0, b, op, f) :
             b \in 0..1, op \in {"compound", "prefix", "postfix"}, f \in BOOLEAN}
    \cup {Desc("mixedLogical", a, b, op, FALSE) :
             a \in 0..3, b \in 0..3, op \in {"LOGICAL_AND", "LOGICAL_OR"}}

(***************************************************************************)
(* The lexer (lang/lexer/lexer.ts).  The source text is a sequence of      *)
(* one-character strings; positions are 0-based as in the code.  A lexer   *)
(* is a record of the class's fields, together with err (the Error the     *)
(* last call threw, if any), tokens (every token returned so far) and      *)
(* starts (the value of start when each of them was made).                 *)
(***************************************************************************)
\* The value peek() and peekNext() give past the end of the source.
NUL == "NUL"

LowerCase ==
    {"a", "b", "c", "d", "e", "f", "g", "h", "i", "j", "k", "l", "m",
     "n", "o", "p", "q", "r", "s", "t", "u", "v", "w", "x", "y", "z"}

UpperCase ==
    {"A", "B", "C", "D", "E", "F", "G", "H", "I", "J", "K", "L", "M",
     "N", "O", "P", "Q", "R", "S", "T", "U", "V", "W", "X", "Y", "Z"}

Digits == {"0", "1", "2", "3", "4", "5", "6", "7", "8", "9"}

ErrBlockComment == "Block comments are not supported."

ErrUnexpectedAmpersand == "Unexpected character: &. Did you mean '&&'?"

ErrUnexpectedBar == "Unexpected character: |. Did you mean '||'?"

ErrUnexpectedCharacter == "Unexpected character"

\* The keywords map built by the constructor: the word and its token type.
keywords ==
    {<<<<"i", "n", "t">>, "INT">>,
     <<<<"d", "o", "u", "b", "l", "e">>, "DOUBLE">>,
     <<<<"b", "o", "o", "l">>, "BOOL">>,
     <<<<"t", "r", "u", "e">>, "TRUE">>,
     <<<<"f", "a", "l", "s", "e">>, "FALSE">>,
     <<<<"i", "f">>, "IF">>,
     <<<<"e", "l", "s", "e">>, "ELSE">>,
     <<<<"f", "o", "r">>, "FOR">>,
     <<<<"w", "h", "i", "l", "e">>, "WHILE">>}

\* keywords.get(text) || TokenType.IDENTIFIER
KeywordType(text) ==
    IF \E entry \in keywords : entry[1] = text
    THEN (CHOOSE entry \in keywords : entry[1] = text)[2]
    ELSE "IDENTIFIER"

NewLexer(source) ==
    [source |-> source, start |-> 0, current |-> 0, line |-> 1, col |-> 1,
     err |-> NoError, tokens |-> <<>>, starts |-> <<>>]

\* source.charAt(i): the empty string outside the source.
charAt(source, i) == IF 0 <= i /\ i < Len(source) THEN source[i + 1] ELSE ""

isAtEndOffByOne(lx) == lx.current > Len(lx.source)

isAtEnd(lx) == lx.current >= Len(lx.source)

isDigit(char) == char \in Digits

isAlpha(char) == char \in LowerCase \cup UpperCase \cup {"_"}

isAlphaNumeric(char) == isAlpha(char) \/ isDigit(char)

peek(lx) == IF isAtEnd(lx) THEN NUL ELSE charAt(lx.source, lx.current)

peekNext(lx) ==
    IF lx.current + 1 >= Len(lx.source) THEN NUL
    ELSE charAt(lx.source, lx.current + 1)

\* advance(): the lexer after the call; the character it returns is
\* charAt(source, current) of the lexer before.
advance(lx) == [lx EXCEPT !.current = @ + 1, !.col = @ + 1]

\* Whether match(expected) succeeds; when it does the lexer moves as in advance().
match(lx, expected) == ~isAtEnd(lx) /\ charAt(lx.source, lx.current) = expected

makeToken(lx, type) ==
    [type |-> type,
     lexeme |-> SubSeq(lx.source, lx.start + 1, lx.current),
     line |-> lx.line,
     col |-> lx.col - (lx.current - lx.start)]

\* return this.makeToken(type), recorded.
Returned(lx, type) ==
    [lx EXCEPT !.tokens = Append(@, makeToken(lx, type)),
               !.starts = Append(@, lx.start)]

\* while (this.peek() !== '\n' && !this.isAtEnd()) this.advance();
RECURSIVE skipLine(_)
skipLine(lx) ==
    IF peek(lx) # "\n" /\ ~isAtEnd(lx) THEN skipLine(advance(lx)) ELSE lx

RECURSIVE skipWhitespace(_)
skipWhitespace(lx) ==
    IF peek(lx) \in {" ", "\r", "\t"} THEN skipWhitespace(advance(lx))
    ELSE IF peek(lx) = "\n"
    THEN skipWhitespace(advance([lx EXCEPT !.line = @ + 1, !.col = 1]))
    ELSE IF peek(lx) = "/" /\ peekNext(lx) = "/" THEN skipWhitespace(skipLine(lx))
    ELSE lx

RECURSIVE identifier(_)
identifier(lx) ==
    IF isAlphaNumeric(peek(lx)) THEN identifier(advance(lx))
    ELSE Returned(lx, KeywordType(SubSeq(lx.source, lx.start + 1, lx.current)))

RECURSIVE digits(_)
digits(lx) == IF isDigit(peek(lx)) THEN digits(advance(lx)) ELSE lx

number(lx) ==
    IF peek(digits(lx)) = "." /\ isDigit(peekNext(digits(lx)))
    THEN Returned(digits(advance(digits(lx))), "DOUBLE_LITERAL")
    ELSE Returned(digits(lx), "INT_LITERAL")

\* The token types of the one-character punctuation.
Punctuation(char) ==
    CASE char = "(" -> "LPAREN"
      [] char = ")" -> "RPAREN"
      [] char = "{" -> "LBRACE"
      [] char = "}" -> "RBRACE"
      [] char = "[" -> "LBRACKET"
      [] char = "]" -> "RBRACKET"
      [] char = ";" -> "SEMICOLON"
      [] char = "," -> "COMMA"
      [] OTHER -> ""

\* return this.makeToken(this.match(second) ? matched : single)
EitherToken(lx, second, matched, single) ==
    IF match(lx, second) THEN Returned(advance(lx), matched)
    ELSE Returned(lx, single)

\* The cases of + and -: the assignment form, the doubled form, or the operator.
SignToken(lx, char, assign, doubled, single) ==
    IF match(lx, "=") THEN Returned(advance(lx), assign)
    ELSE IF match(lx, char) THEN Returned(advance(lx), doubled)
    ELSE Returned(lx, single)

\* The cases of & and |: the doubled form or an Error.
LogicalToken(lx, char, doubled, msg) ==
    IF match(lx, char) THEN Returned(advance(lx), doubled) ELSE Throw(lx, msg)

RECURSIVE scanToken(_)
\* scanToken() after const char = this.advance(), apart from the case of '/'.
scanChar(lx, char) ==
    IF isAlpha(char) THEN identifier(lx)
    ELSE IF isDigit(char) THEN number(lx)
    ELSE IF Punctuation(char) # "" THEN Returned(lx, Punctuation(char))
    ELSE CASE char = "+" -> SignToken(lx, "+", "PLUS_ASSIGN", "INC", "PLUS")
           [] char = "-" -> SignToken(lx, "-", "MINUS_ASSIGN", "DEC", "MINUS")
           [] char = "*" -> EitherToken(lx, "=", "STAR_ASSIGN", "STAR")
           [] char = "%" -> EitherToken(lx, "=", "PERCENT_ASSIGN", "PERCENT")
           [] char = "=" -> EitherToken(lx, "=", "EQ", "ASSIGN")
           [] char = "!" -> EitherToken(lx, "=", "NEQ", "LOGICAL_NOT")
           [] char = "&" -> LogicalToken(lx, "&", "LOGICAL_AND", ErrUnexpectedAmpersand)
           [] char = "|" -> LogicalToken(lx, "|", "LOGICAL_OR", ErrUnexpectedBar)
           [] char = "<" -> EitherToken(lx, "=", "LTE", "LT")
           [] char = ">" -> EitherToken(lx, "=", "GTE", "GT")
           [] OTHER -> Throw(lx, ErrUnexpectedCharacter)

\* case '/' of scanToken().
scanSlash(lx) ==
    IF match(lx, "/") THEN scanToken(skipLine(advance(lx)))
    ELSE IF match(lx, "*") THEN Throw(advance(lx), ErrBlockComment)
    ELSE EitherToken(lx, "=", "SLASH_ASSIGN", "SLASH")

\* The lexer at this.start = this.current.
Started(lx) == [lx EXCEPT !.start = lx.current]

\* scanToken() from the lexer with whitespace skipped and start set.
scanFrom(lx) ==
    IF isAtEnd(lx) THEN Returned(lx, "EOF")
    ELSE IF charAt(lx.source, lx.current) = "/" THEN scanSlash(advance(lx))
    ELSE scanChar(advance(lx), charAt(lx.source, lx.current))

scanToken(lx) == scanFrom(Started(skipWhitespace([lx EXCEPT !.err = NoError])))

(***************************************************************************)
(* The parser (lang/parser/parser.ts).  A parser is a record of the        *)
(* class's fields, together with err (the CompileError thrown, if any) and *)
(* ast (what parse() returned, Absent before it has).                      *)
(***************************************************************************)
NewParser(tokens) == [tokens |-> tokens, current |-> 0, err |-> NoError, ast |-> Absent]

\* The messages of the CompileErrors the parser throws.
ErrExpectedName == "CompileError: expected a variable name"

ErrExpectedExpression == "CompileError: expected an expression"

ErrNotLvalue == "CompileError: operand must be a modifiable lvalue"

ErrInvalidAssignmentTarget == "CompileError: invalid assignment target"

ErrArrayNeedsList == "CompileError: an array cannot be initialized with a single expression"

ErrImplicitNeedsList == "CompileError: an implicitly sized array must have an initializer list"

\* The message of consume(type, ...) when the token is not there.
ErrExpected(type) == <<"CompileError: expected", type>>

\* What a parsing method leaves: the parser after it and the node it returns.
Parsed(p, node) == [p |-> p, node |-> node]

\* Number(lexeme) of an integer literal's lexeme, a sequence of digits.
DigitValue(char) ==
    CASE char = "0" -> 0 [] char = "1" -> 1 [] char = "2" -> 2 [] char = "3" -> 3
      [] char = "4" -> 4 [] char = "5" -> 5 [] char = "6" -> 6 [] char = "7" -> 7
      [] char = "8" -> 8 [] char = "9" -> 9

RECURSIVE Number(_)
Number(lexeme) ==
    IF lexeme = <<>> THEN 0
    ELSE 10 * Number(SubSeq(lexeme, 1, Len(lexeme) - 1)) + DigitValue(lexeme[Len(lexeme)])

peekToken(p) == p.tokens[p.current + 1]

previous(p) == p.tokens[p.current]

parserAtEnd(p) == peekToken(p).type = "EOF"

check(p, type) == ~parserAtEnd(p) /\ peekToken(p).type = type

\* Whether match(...types) succeeds; when it does the parser moves as in advance().
matchAny(p, types) == \E type \in types : check(p, type)

advanceToken(p) == IF parserAtEnd(p) THEN p ELSE [p EXCEPT !.current = @ + 1]

consume(p, type) ==
    IF Failed(p) THEN p
    ELSE IF check(p, type) THEN advanceToken(p)
    ELSE Throw(p, ErrExpected(type))

\* consume(type, ...) after a method that left r, keeping the node.
Consumed(r, type) == Parsed(consume(r.p, type), r.node)

\* A faulty table: the additive operators at the level of the multiplicative.
getPrecedenceFlat(type) ==
    CASE type = "LOGICAL_OR" -> 1
      [] type = "LOGICAL_AND" -> 2
      [] type \in {"EQ", "NEQ"} -> 3
      [] type \in {"LT", "LTE", "GT", "GTE"} -> 4
      [] type \in {"PLUS", "MINUS", "STAR", "SLASH", "PERCENT"} -> 6
      [] OTHER -> 0

\* precedences.get(type) || 0
getPrecedence(type) ==
    CASE type = "LOGICAL_OR" -> 1
      [] type = "LOGICAL_AND" -> 2
      [] type \in {"EQ", "NEQ"} -> 3
      [] type \in {"LT", "LTE", "GT", "GTE"} -> 4
      [] type \in {"PLUS", "MINUS"} -> 5
      [] type \in {"STAR", "SLASH", "PERCENT"} -> 6
      [] OTHER -> 0

AssignmentOperators ==
    {"ASSIGN", "PLUS_ASSIGN", "MINUS_ASSIGN", "STAR_ASSIGN", "SLASH_ASSIGN",
     "PERCENT_ASSIGN"}

IsLvalueAny(node) == TRUE

\* expr.kind === 'Identifier' || expr.kind === 'Subscript'
IsLvalue(node) == node.kind \in {"Identifier", "Subscript"}

RECURSIVE assignment(_)
RECURSIVE parsePrecedence(_, _)
RECURSIVE parsePrefix(_)
RECURSIVE infixLoop(_, _)
RECURSIVE statement(_)
RECURSIVE declaration(_)

expression(p) == assignment(p)

\* { kind: 'Unary', operator, right }
UnaryOf(operator, r) ==
    IF Failed(r.p) THEN r
    ELSE Parsed(r.p, [kind |-> "Unary", operator |-> operator, right |-> r.node])

\* The prefix ++ and --, from the argument parsed.
PrefixUpdateOf(operator, r) ==
    IF Failed(r.p) THEN r
    ELSE IF ~IsLvalue(r.node) THEN Parsed(Throw(r.p, ErrNotLvalue), Absent)
    ELSE Parsed(r.p, [kind |-> "Update", operator |-> operator,
                      argument |-> r.node, prefix |-> TRUE])

\* The literal of the token just consumed.
LiteralOf(token) ==
    IF token.type = "TRUE" THEN BoolLiteral(TRUE)
    ELSE IF token.type = "FALSE" THEN BoolLiteral(FALSE)
    ELSE [kind |-> "Literal", value |-> Number(token.lexeme), type |-> token.type]

parsePrefix(p) ==
    IF matchAny(p, {"INT_LITERAL", "DOUBLE_LITERAL", "TRUE", "FALSE"})
    THEN Parsed(advanceToken(p), LiteralOf(peekToken(p)))
    ELSE IF check(p, "IDENTIFIER")
    THEN Parsed(advanceToken(p), [kind |-> "Identifier", name |-> peekToken(p)])
    ELSE IF check(p, "LPAREN")
    THEN Consumed(expression(advanceToken(p)), "RPAREN")
    ELSE IF matchAny(p, {"MINUS", "LOGICAL_NOT"})
    THEN UnaryOf(peekToken(p), parsePrecedence(advanceToken(p), 7))
    ELSE IF matchAny(p, {"INC", "DEC"})
    THEN PrefixUpdateOf(peekToken(p), parsePrecedence(advanceToken(p), 7))
    ELSE Parsed(Throw(p, ErrExpectedExpression), Absent)

\* { kind: 'Subscript', object, index } once the index is parsed and ] consumed.
SubscriptOf(object, r) ==
    IF Failed(consume(r.p, "RBRACKET")) THEN Consumed(r, "RBRACKET")
    ELSE Parsed(consume(r.p, "RBRACKET"), Subscript(object, r.node))

\* The postfix ++ and -- on the expression r left, the operator being next.
PostfixUpdateOf(r) ==
    IF ~IsLvalue(r.node) THEN Parsed(Throw(advanceToken(r.p), ErrNotLvalue), Absent)
    ELSE Parsed(advanceToken(r.p),
                [kind |-> "Update", operator |-> peekToken(r.p),
                 argument |-> r.node, prefix |-> FALSE])

\* { kind: 'Binary', left, operator, right } once the right operand is parsed.
BinaryOf(left, operator, r) ==
    IF Failed(r.p) THEN r
    ELSE Parsed(r.p, [kind |-> "Binary", left |-> left, operator |-> operator,
                      right |-> r.node])

\* The while (true) loop of parsePrecedence, with expr = r.node.
infixLoop(r, precedence) ==
    IF Failed(r.p) THEN r
    ELSE IF check(r.p, "LBRACKET")
    THEN infixLoop(SubscriptOf(r.node, expression(advanceToken(r.p))), precedence)
    ELSE IF matchAny(r.p, {"INC", "DEC"})
    THEN infixLoop(PostfixUpdateOf(r), precedence)
    ELSE IF precedence <= getPrecedence(peekToken(r.p).type)
    THEN infixLoop(BinaryOf(r.node, peekToken(r.p),
                            parsePrecedence(advanceToken(r.p),
                                            getPrecedence(peekToken(r.p).type) + 1)),
                   precedence)
    ELSE r

parsePrecedence(p, precedence) == infixLoop(parsePrefix(p), precedence)

\* The assignment once its value is parsed.
AssignmentOf(target, operator, r) ==
    IF Failed(r.p) THEN r
    ELSE IF IsLvalue(target)
    THEN Parsed(r.p, [kind |-> "Assignment", target |-> target,
                      operator |-> operator, value |-> r.node])
    ELSE Parsed(Throw(r.p, ErrInvalidAssignmentTarget), Absent)

\* assignment() after the left side is parsed.
assignmentFrom(r) ==
    IF Failed(r.p) THEN r
    ELSE IF matchAny(r.p, AssignmentOperators)
    THEN AssignmentOf(r.node, peekToken(r.p), assignment(advanceToken(r.p)))
    ELSE r

assignment(p) == assignmentFrom(parsePrecedence(p, 1))

\* The do-while loop over the elements of an initializer list, elements
\* holding those parsed so far; then the closing brace.
RECURSIVE initializerElements(_, _)
\* The loop once the next element is parsed.
initializerElement(r, elements) ==
    IF Failed(r.p) THEN r
    ELSE IF check(r.p, "COMMA")
    THEN initializerElements(advanceToken(r.p), Append(elements, r.node))
    ELSE Parsed(consume(r.p, "RBRACE"), InitializerList(Append(elements, r.node)))

initializerElements(p, elements) == initializerElement(expression(p), elements)

\* The initializer list after its opening brace.
initializerList(p) ==
    IF check(p, "RBRACE") THEN Parsed(advanceToken(p), InitializerList(<<>>))
    ELSE initializerElements(p, <<>>)

\* The size of a declarator, from the parser after the name: Absent without
\* brackets and with empty ones.
declaratorSize(p) ==
    IF ~check(p, "LBRACKET") THEN Parsed(p, Absent)
    ELSE IF check(advanceToken(p), "RBRACKET")
    THEN Parsed(advanceToken(advanceToken(p)), Absent)
    ELSE Consumed(expression(advanceToken(p)), "RBRACKET")

\* The initializer of a declarator, from the parser after the size.
declaratorInitializer(p) ==
    IF ~check(p, "ASSIGN") THEN Parsed(p, Absent)
    ELSE IF check(advanceToken(p), "LBRACE")
    THEN initializerList(advanceToken(advanceToken(p)))
    ELSE expression(advanceToken(p))

\* isArray as the validation computes it, after the initializer is parsed.
isArrayDeclarator(p, size) == Present(size) \/ previous(p).type = "RBRACKET"

\* The validation of a declarator and the declarator pushed.
validatedDeclarator(name, size, r) ==
    IF Failed(r.p) THEN r
    ELSE IF Present(size) /\ Present(r.node) /\ r.node.kind # "InitializerList"
    THEN Parsed(Throw(r.p, ErrArrayNeedsList), Absent)
    ELSE IF isArrayDeclarator(r.p, size) /\ Present(r.node)
            /\ r.node.kind # "InitializerList"
    THEN Parsed(Throw(r.p, ErrArrayNeedsList), Absent)
    ELSE IF ~Present(size) /\ isArrayDeclarator(r.p, size)
            /\ (~Present(r.node) \/ r.node.kind # "InitializerList")
    THEN Parsed(Throw(r.p, ErrImplicitNeedsList), Absent)
    ELSE Parsed(r.p, [kind |-> "Declarator", name |-> name, size |-> size,
                      initializer |-> r.node])

\* A declarator after its size is parsed.
declaratorFrom(name, r) ==
    IF Failed(r.p) THEN r
    ELSE validatedDeclarator(name, r.node, declaratorInitializer(r.p))

\* One round of the do-while loop of varDeclaration.
declarator(p) ==
    IF Failed(consume(p, "IDENTIFIER")) THEN Parsed(Throw(p, ErrExpectedName), Absent)
    ELSE declaratorFrom(peekToken(p), declaratorSize(advanceToken(p)))

\* The do-while loop of varDeclaration, declarators holding those pushed so far.
RECURSIVE declarators(_, _)
\* The loop once the next declarator is parsed.
declaratorPushed(r, pushed) ==
    IF Failed(r.p) THEN r
    ELSE IF check(r.p, "COMMA")
    THEN declarators(advanceToken(r.p), Append(pushed, r.node))
    ELSE Parsed(r.p, Append(pushed, r.node))

declarators(p, pushed) == declaratorPushed(declarator(p), pushed)

\* varDeclaration(), called after the type is consumed.
varDeclarationFrom(type, r) ==
    IF Failed(consume(r.p, "SEMICOLON")) THEN Parsed(consume(r.p, "SEMICOLON"), Absent)
    ELSE Parsed(consume(r.p, "SEMICOLON"),
                [kind |-> "VarDeclaration", dataType |-> type, declarators |-> r.node])

varDeclaration(p) == varDeclarationFrom(previous(p), declarators(p, <<>>))

expressionStatementFrom(r) ==
    IF Failed(consume(r.p, "SEMICOLON")) THEN Parsed(consume(r.p, "SEMICOLON"), Absent)
    ELSE Parsed(consume(r.p, "SEMICOLON"), ExpressionStmt(r.node))

expressionStatement(p) == expressionStatementFrom(expression(p))

\* break; and continue; after the keyword.
jumpStatement(p, node) ==
    IF Failed(consume(p, "SEMICOLON")) THEN Parsed(consume(p, "SEMICOLON"), Absent)
    ELSE Parsed(consume(p, "SEMICOLON"), node)

\* The loop of block(), body holding the statements pushed so far.
RECURSIVE block(_, _)
\* The loop once the next statement is parsed.
blockPushed(r, body) ==
    IF Failed(r.p) THEN r ELSE block(r.p, Append(body, r.node))

block(p, body) ==
    IF ~check(p, "RBRACE") /\ ~parserAtEnd(p) THEN blockPushed(declaration(p), body)
    ELSE IF Failed(consume(p, "RBRACE")) THEN Parsed(consume(p, "RBRACE"), Absent)
    ELSE Parsed(consume(p, "RBRACE"), BlockStmt(body))

\* An if statement once the then branch is parsed.
ifStatementElse(condition, thenBranch, r) ==
    IF Failed(r.p) THEN r ELSE Parsed(r.p, IfStmt(condition, thenBranch, r.node))

ifStatementThen(condition, r) ==
    IF Failed(r.p) THEN r
    ELSE IF ~check(r.p, "ELSE") THEN Parsed(r.p, IfStmt(condition, r.node, Absent))
    ELSE ifStatementElse(condition, r.node, statement(advanceToken(r.p)))

\* The condition in parentheses after if or while: the parser after ')'.
parenthesized(p) ==
    IF Failed(consume(p, "LPAREN")) THEN Parsed(consume(p, "LPAREN"), Absent)
    ELSE Consumed(expression(consume(p, "LPAREN")), "RPAREN")

ifStatementFrom(r) ==
    IF Failed(r.p) THEN Parsed(r.p, Absent) ELSE ifStatementThen(r.node, statement(r.p))

ifStatement(p) == ifStatementFrom(parenthesized(p))

whileStatementBody(condition, r) ==
    IF Failed(r.p) THEN r ELSE Parsed(r.p, WhileStmt(condition, r.node))

whileStatementFrom(r) ==
    IF Failed(r.p) THEN Parsed(r.p, Absent) ELSE whileStatementBody(r.node, statement(r.p))

whileStatement(p) == whileStatementFrom(parenthesized(p))

\* The initializer clause of a for statement, after '('.
forInitializer(p) ==
    IF check(p, "SEMICOLON") THEN Parsed(advanceToken(p), Absent)
    ELSE IF matchAny(p, {"INT", "DOUBLE", "BOOL"}) THEN varDeclaration(advanceToken(p))
    ELSE expressionStatement(p)

\* An optional expression, absent when the closing token is next; then that token.
forClause(p, closing) ==
    IF Failed(p) THEN Parsed(p, Absent)
    ELSE IF check(p, closing) THEN Parsed(advanceToken(p), Absent)
    ELSE Consumed(expression(p), closing)

forStatementBody(initializer, condition, increment, r) ==
    IF Failed(r.p) THEN r
    ELSE Parsed(r.p, ForStmt(initializer, condition, increment, r.node))

forStatementIncrement(initializer, condition, r) ==
    IF Failed(r.p) THEN Parsed(r.p, Absent)
    ELSE forStatementBody(initializer, condition, r.node, statement(r.p))

forStatementCondition(initializer, r) ==
    IF Failed(r.p) THEN Parsed(r.p, Absent)
    ELSE forStatementIncrement(initializer, r.node, forClause(r.p, "RPAREN"))

forStatementFrom(r) ==
    IF Failed(r.p) THEN Parsed(r.p, Absent)
    ELSE forStatementCondition(r.node, forClause(r.p, "SEMICOLON"))

forStatement(p) ==
    IF Failed(consume(p, "LPAREN")) THEN Parsed(consume(p, "LPAREN"), Absent)
    ELSE forStatementFrom(forInitializer(consume(p, "LPAREN")))

statement(p) ==
    IF check(p, "IF") THEN ifStatement(advanceToken(p))
    ELSE IF check(p, "WHILE") THEN whileStatement(advanceToken(p))
    ELSE IF check(p, "FOR") THEN forStatement(advanceToken(p))
    ELSE IF check(p, "BREAK") THEN jumpStatement(advanceToken(p), BreakStmt)
    ELSE IF check(p, "CONTINUE") THEN jumpStatement(advanceToken(p), ContinueStmt)
    ELSE IF check(p, "LBRACE") THEN block(advanceToken(p), <<>>)
    ELSE IF check(p, "SEMICOLON") THEN Parsed(advanceToken(p), EmptyStmt)
    ELSE expressionStatement(p)

declaration(p) ==
    IF matchAny(p, {"INT", "DOUBLE", "BOOL"}) THEN varDeclaration(advanceToken(p))
    ELSE statement(p)

\* The loop of parse(), statements holding those pushed so far.
RECURSIVE parseLoop(_, _)
\* The loop once the next statement is parsed.
parsePushed(r, statements) ==
    IF Failed(r.p) THEN r.p ELSE parseLoop(r.p, Append(statements, r.node))

parseLoop(p, statements) ==
    IF parserAtEnd(p) THEN [p EXCEPT !.ast = Program(statements)]
    ELSE parsePushed(declaration(p), statements)

parse(p) == parseLoop(p, <<>>)

(***************************************************************************)
(* The system: a host compiles one program, constructs a VirtualMachine on *)
(* the bytecode and drives it, one next() at a time on the generator it    *)
(* holds, or to the end with runToEnd().  For a compound assignment a      *)
(* second machine runs the expanded form with runToEnd().  pair is a pair  *)
(* of machines constructed on the same bytecode array, each stepped by its *)
(* own generator.  lexer is a Lexer a host asks for tokens, parser a       *)
(* Parser a host calls parse() on, codegen a CodeGenerator a host calls    *)
(* generate() on again and again, and table a SymbolTable a host calls.    *)
(***************************************************************************)
\* A CodeGenerator in the hands of a host: the generator, the program passed
\* to the last generate() and the number of calls made.
NewHostGenerator == [g |-> NewCodeGenerator, program |-> Absent, calls |-> 0]

\* A SymbolTable in the hands of a host: the table, the last method called,
\* its argument and what it returned (-1 when it returned nothing).
NewHostTable == [st |-> NewSymbolTable, call |-> "constructor", name |-> "", returned |-> -1]

VARIABLES prog, compileError, instructions, spans, vm, gen, result, mon,
          instructions2, vm2, result2, pair, lexer, parser, codegen, table

vars == <<prog, compileError, instructions, spans, vm, gen, result, mon,
          instructions2, vm2, result2, pair, lexer, parser, codegen, table>>

\* No lexer or parser in use.
\* The generator and the table on their own are not in use.
NoUnits ==
    /\ codegen = NewHostGenerator
    /\ table = NewHostTable

NoFrontEnd ==
    /\ lexer = NewLexer(<<>>)
    /\ parser = NewParser(<<>>)
    /\ NoUnits

\* The Heap object a machine's heap field refers to: the field's initializer
\* constructs one for every machine.  A faulty class shares one heap.
HeapOfShared(id) == 1

HeapOf(id) == id

\* Two machines just constructed: pair.vm[id] holds machine id's own fields,
\* pair.heaps the Heap objects, pair.gen the generators and pair.trace what
\* an observer saw of each machine after each of its steps.
NewPair ==
    [vm |-> [id \in 1..2 |-> NewMachine],
     heaps |-> [id \in 1..2 |-> <<>>],
     gen |-> [id \in 1..2 |-> "suspendedStart"],
     trace |-> [id \in 1..2 |-> <<>>]]

\* Machine id of the pair with its heap.
Machine(p, id) == [p.vm[id] EXCEPT !.heap = p.heaps[HeapOf(id)]]

\* What is observed of a machine: ip, the stack, sp and the heap.
Snapshot(m) == [ip |-> m.ip, stack |-> m.stack, sp |-> m.sp, heap |-> m.heap]

\* The state once the program is compiled to the generator g.
Loaded(g) ==
    /\ compileError = g.err
    /\ instructions = IF Failed(g) THEN <<>> ELSE g.bytecode
    /\ spans = IF Failed(g) THEN <<>> ELSE g.spans
    /\ vm = NewMachine
    /\ gen = "suspendedStart"
    /\ result = NoResult
    /\ mon = NewMonitor(instructions, spans)

Init ==
    /\ prog \in Programs
    /\ Loaded(compile(Ast(prog)))
    /\ instructions2 = IF HasTwin(prog) THEN compile(TwinAst(prog)).bytecode ELSE <<>>
    /\ vm2 = NewMachine
    /\ result2 = NoResult
    /\ pair = NewPair
    /\ NoFrontEnd

\* The state after a next() that left the call c.
Stepped(c) ==
    /\ vm' = c.m
    /\ gen' = c.gen
    /\ mon' = c.mon
    /\ result' = ResultOf("next", c)

\* The state after a runToEnd() that left the call c.
Ran(c) ==
    /\ vm' = c.m
    /\ mon' = c.mon
    /\ result' = ResultOf("runToEnd", c)

\* The second machine after a runToEnd() that left the call c.
Ran2(c) ==
    /\ vm2' = c.m
    /\ result2' = ResultOf("runToEnd", c)

\* The host asks the generator for the next step.
Step ==
    /\ compileError = NoError
    /\ Stepped(NextOnce(instructions, spans, Call(vm, gen, mon)))
    /\ UNCHANGED <<prog, compileError, instructions, spans,
                   instructions2, vm2, result2, pair, lexer, parser, codegen, table>>

\* The host calls runToEnd().
RunToEnd ==
    /\ compileError = NoError
    /\ Ran(runToEnd(instructions, spans, vm, mon))
    /\ UNCHANGED <<prog, compileError, instructions, spans, gen,
                   instructions2, vm2, result2, pair, lexer, parser, codegen, table>>

RunToEnd2 ==
    /\ HasTwin(prog)
    /\ result2.outcome # "throw"
    /\ Ran2(runToEnd(instructions2, <<>>, vm2, NewMonitor(<<>>, <<>>)))
    /\ UNCHANGED <<prog, compileError, instructions, spans, vm, gen, result, mon,
                   instructions2, pair, lexer, parser, codegen, table>>

Next == Step \/ RunToEnd \/ RunToEnd2

Spec == Init /\ [][Next]_vars

(***************************************************************************)
(* Two machines on one bytecode array, stepped in any interleaving.        *)
(***************************************************************************)
\* The programs the pair runs.
PairPrograms ==
         {Desc("whileSum", 2, 0, "", FALSE)}
    \cup {Desc("array", 0, 0, "", FALSE)}
    \cup {Desc("logical", 1, 0, op, TRUE) : op \in {"LOGICAL_AND", "LOGICAL_OR"}}
    \cup {Desc("uninitialized", 0, b, "", FALSE) : b \in 0..3}
    \cup {Desc("outOfBounds", a, 0, "", f) : a \in {0, 3}, f \in BOOLEAN}
    \cup {Desc("arrayFill", MaxVal, 1, op, FALSE) : op \in {"INT", "BOOL"}}
    \cup {Desc("localInLoop", 2, b, "", FALSE) : b \in 0..3}

InitPair ==
    /\ prog \in PairPrograms
    /\ Loaded(compile(Ast(prog)))
    /\ instructions2 = <<>>
    /\ vm2 = NewMachine
    /\ result2 = NoResult
    /\ pair = NewPair
    /\ NoFrontEnd

\* The pair after a next() on machine id's generator that left the call c.
Paired(id, c) ==
    pair' = [pair EXCEPT !.vm[id] = [c.m EXCEPT !.heap = <<>>],
                         !.heaps[HeapOf(id)] = c.m.heap,
                         !.gen[id] = c.gen,
                         !.trace[id] = Append(@, Snapshot(c.m))]

\* The host asks machine id's generator for the next step.
StepPair(id) ==
    /\ pair.gen[id] # "completed"
    /\ Paired(id, NextOnce(instructions, <<>>,
                           Call(Machine(pair, id), pair.gen[id], NewMonitor(<<>>, <<>>))))
    /\ UNCHANGED <<prog, compileError, instructions, spans, vm, gen, result, mon,
                   instructions2, vm2, result2, lexer, parser, codegen, table>>

NextPair == \E id \in 1..2 : StepPair(id)

SpecPair == InitPair /\ [][NextPair]_vars

(***************************************************************************)
(* Hand-assembled bytecode: a machine constructed on an instruction array  *)
(* written by hand, as the unit tests of the machine do.                   *)
(***************************************************************************)
Instruction(opcode, operand) == [opcode |-> opcode, operand |-> operand]

\* The instructions the hand-assembled programs are made of.
AsmInstructions ==
    <<Instruction("RESERVE", -1), Instruction("RESERVE", 1),
      Instruction("RESERVE", STACK_MAX_SIZE), Instruction("RESERVE", STACK_MAX_SIZE + 1),
      Instruction("PUSH", createInt(1)), Instruction("POP", Undefined),
      Instruction("POP_N", 2), Instruction("DUP", Undefined),
      Instruction("LOAD", 0), Instruction("STORE", 0)>>

\* Every program of one to three of these instructions, each named by its
\* position in AsmInstructions.
AsmPrograms ==
    {[fam |-> "asm", code |-> code] :
        code \in UNION {[1..n -> 1..Len(AsmInstructions)] : n \in 1..3}}

Assembled(code) == [k \in 1..Len(code) |-> AsmInstructions[code[k]]]

InitAsm ==
    /\ prog \in AsmPrograms
    /\ Loaded([NewCodeGenerator EXCEPT !.bytecode = Assembled(prog.code)])
    /\ instructions2 = <<>>
    /\ vm2 = NewMachine
    /\ result2 = NoResult
    /\ pair = NewPair
    /\ NoFrontEnd

NextAsm == Step \/ RunToEnd

SpecAsm == InitAsm /\ [][NextAsm]_vars

(***************************************************************************)
(* A lexer on its own: a host constructs a Lexer on a source text and asks *)
(* it for tokens, going on after the end of the input and after an Error.  *)
(***************************************************************************)
\* How many pieces a source text is made of, at most.
MaxPieces == 3

\* How many tokens the host asks for, at most.
MaxTokens == MaxPieces + 2

\* The pieces of the source texts: characters and comment delimiters.
Marks ==
    <<<<" ">>, <<"\n">>, <<"/">>, <<"/", "/">>, <<"/", "*">>, <<"*", "/">>,
      <<"+">>, <<"=">>, <<"1">>, <<"x">>, <<"&">>, <<".">>>>

\* The words: the keywords of the language and a word that is none.
Words ==
    {entry[1] : entry \in keywords}
    \cup {<<"b", "r", "e", "a", "k">>, <<"c", "o", "n", "t", "i", "n", "u", "e">>,
          <<"r", "e", "t", "u", "r", "n">>}

\* The text made of the pieces named by their positions in Marks.
RECURSIVE Text(_)
Text(pieces) == IF pieces = <<>> THEN <<>> ELSE Marks[Head(pieces)] \o Text(Tail(pieces))

MarkTexts(n) == {Text(pieces) : pieces \in UNION {[1..k -> 1..Len(Marks)] : k \in 0..n}}

\* Every text of at most MaxPieces pieces, and every word between two texts
\* of at most one piece.
Sources ==
    MarkTexts(MaxPieces)
    \cup {pre \o word \o post : pre \in MarkTexts(1), word \in Words, post \in MarkTexts(1)}

InitLex ==
    /\ prog = [fam |-> "source"]
    /\ Loaded(NewCodeGenerator)
    /\ instructions2 = <<>>
    /\ vm2 = NewMachine
    /\ result2 = NoResult
    /\ pair = NewPair
    /\ lexer \in {NewLexer(source) : source \in Sources}
    /\ parser = NewParser(<<>>)
    /\ NoUnits

\* The host calls scanToken().
ScanToken ==
    /\ Len(lexer.tokens) < MaxTokens
    /\ lexer' = scanToken(lexer)
    /\ UNCHANGED <<prog, compileError, instructions, spans, vm, gen, result, mon,
                   instructions2, vm2, result2, pair, parser, codegen, table>>

NextLex == ScanToken

SpecLex == InitLex /\ [][NextLex]_vars

(***************************************************************************)
(* A parser on its own: a host constructs a Parser on a token array that   *)
(* ends with EOF and calls parse().  A lexeme is a sequence of characters, *)
(* as the lexer makes it.                                                  *)
(***************************************************************************)
\* How many tokens a free-form expression has, at most.
MaxLen == 3

\* How many binary or assignment operators an operator chain has, at most.
MaxOperators == 2

Ident(char) == Token("IDENTIFIER", <<char>>)

IntToken(char) == Token("INT_LITERAL", <<char>>)

Semicolon == Token("SEMICOLON", <<";">>)

EndOfFile == Token("EOF", <<>>)

\* The binary operators, by token type.
BinaryOperators ==
    {Token("LOGICAL_OR", <<"|", "|">>), Token("LOGICAL_AND", <<"&", "&">>),
     Token("EQ", <<"=", "=">>), Token("NEQ", <<"!", "=">>),
     Token("LT", <<"<">>), Token("LTE", <<"<", "=">>),
     Token("GT", <<">">>), Token("GTE", <<">", "=">>),
     Token("PLUS", <<"+">>), Token("MINUS", <<"-">>),
     Token("STAR", <<"*">>), Token("SLASH", <<"/">>), Token("PERCENT", <<"%">>)}

\* The tokens free-form expressions are made of.
ExpressionTokens ==
    {Ident("a"), IntToken("1"), Token("PLUS", <<"+">>), Token("STAR", <<"*">>),
     Token("ASSIGN", <<"=">>), Token("INC", <<"+", "+">>), Token("MINUS", <<"-">>),
     Token("LPAREN", <<"(">>), Token("RPAREN", <<")">>),
     Token("LBRACKET", <<"[">>), Token("RBRACKET", <<"]">>)}

\* Every sequence of at most n of them, well formed or not.
FreeForm(n) == UNION {[1..k -> ExpressionTokens] : k \in 0..n}

\* An operand of an operator chain: an identifier, negated or not.
Operands == {<<Ident("a")>>, <<Token("MINUS", <<"-">>), Ident("a")>>}

ChainOperators ==
    BinaryOperators \cup {Token("ASSIGN", <<"=">>), Token("PLUS_ASSIGN", <<"+", "=">>)}

\* One binary operator of each level, and the two assignment operators.
LevelOperators ==
    {operator \in ChainOperators :
        operator.type \in {"LOGICAL_OR", "LOGICAL_AND", "EQ", "LT", "PLUS", "STAR",
                           "ASSIGN", "PLUS_ASSIGN"}}

\* operand (operator operand)*, with n operators.
RECURSIVE ChainsOf(_, _, _)
ChainsOf(n, operands, operators) ==
    IF n = 0 THEN operands
    ELSE {chain \o <<operator>> \o operand :
             chain \in ChainsOf(n - 1, operands, operators),
             operator \in operators, operand \in operands}

\* The chains of every operator between identifiers, and those of one
\* operator of each level between identifiers negated or not.
Chains(n) ==
    ChainsOf(n, {<<Ident("a")>>}, ChainOperators) \cup ChainsOf(n, Operands, LevelOperators)

\* What stands where an assignment or an update expects its target.
Targets ==
    {<<Ident("a")>>, <<IntToken("1")>>,
     <<Token("LPAREN", <<"(">>), Ident("a"), Token("RPAREN", <<")">>)>>,
     <<Token("LPAREN", <<"(">>), Ident("a"), Token("PLUS", <<"+">>), Ident("b"),
       Token("RPAREN", <<")">>)>>,
     <<Ident("a"), Token("LBRACKET", <<"[">>), IntToken("1"), Token("RBRACKET", <<"]">>)>>,
     <<Token("MINUS", <<"-">>), Ident("a")>>,
     <<Ident("a"), Token("PLUS", <<"+">>), Ident("b")>>,
     <<Ident("a"), Token("INC", <<"+", "+">>)>>}

\* An assignment to the target and an update of it, prefix and postfix.
Uses(target) ==
    {target \o <<Token("ASSIGN", <<"=">>), IntToken("1")>>,
     target \o <<Token("STAR_ASSIGN", <<"*", "=">>), IntToken("1")>>,
     target \o <<Token("INC", <<"+", "+">>)>>,
     target \o <<Token("DEC", <<"-", "-">>)>>,
     <<Token("INC", <<"+", "+">>)>> \o target,
     <<Token("DEC", <<"-", "-">>)>> \o target}

TargetUses == UNION {Uses(target) : target \in Targets}

\* The expressions parsed: as a statement each, followed by ';'.
Expressions == FreeForm(MaxLen) \cup Chains(MaxOperators) \cup TargetUses

\* What follows the name of a declarator: nothing, [] or [2].
Brackets ==
    {<<>>, <<Token("LBRACKET", <<"[">>), Token("RBRACKET", <<"]">>)>>,
     <<Token("LBRACKET", <<"[">>), IntToken("2"), Token("RBRACKET", <<"]">>)>>}

\* Initializer lists of zero, one and two elements.
Lists ==
    {<<Token("LBRACE", <<"{">>)>> \o elements \o <<Token("RBRACE", <<"}">>)>> :
        elements \in {<<>>, <<IntToken("1")>>,
                      <<IntToken("1"), Token("COMMA", <<",">>), IntToken("2")>>}}

\* What follows the brackets: nothing, or '=' and a list, a free-form
\* expression or one of the targets above.
Initializers ==
    {<<>>} \cup {<<Token("ASSIGN", <<"=">>)>> \o value :
                    value \in Lists \cup (FreeForm(MaxLen - 1) \ {<<>>}) \cup Targets}

\* int x <brackets> <initializer> ;
Declarations ==
    {<<Token("INT", <<"i", "n", "t">>), Ident("x")>> \o brackets \o initializer :
        brackets \in Brackets, initializer \in Initializers}

\* Streams of the other statements.
Statements ==
    LET a == Ident("a")
        one == IntToken("1")
        lp == Token("LPAREN", <<"(">>)
        rp == Token("RPAREN", <<")">>)
        lb == Token("LBRACE", <<"{">>)
        rb == Token("RBRACE", <<"}">>)
        int == Token("INT", <<"i", "n", "t">>)
        brk == Token("BREAK", <<"b", "r", "e", "a", "k">>)
        cont == Token("CONTINUE", <<"c", "o", "n", "t", "i", "n", "u", "e">>)
    IN  {<<Token("IF", <<"i", "f">>), lp, a, rp, brk, Semicolon,
           Token("ELSE", <<"e", "l", "s", "e">>), lb, cont, Semicolon, rb>>,
         <<Token("WHILE", <<"w", "h", "i", "l", "e">>), lp, one, rp, lb, a, Semicolon, brk,
           Semicolon, rb>>,
         <<Token("FOR", <<"f", "o", "r">>), lp, int, a, Token("ASSIGN", <<"=">>), one,
           Semicolon, a, Semicolon, a, Token("INC", <<"+", "+">>), rp, cont, Semicolon>>,
         <<Token("FOR", <<"f", "o", "r">>), lp, Semicolon, Semicolon, rp, Semicolon>>,
         <<int, a, Token("COMMA", <<",">>), Ident("b"), Token("ASSIGN", <<"=">>), one,
           Semicolon, lb, rb>>,
         <<Token("IF", <<"i", "f">>), lp, a, brk, Semicolon>>}

\* The token arrays: each ends with EOF.
TokenStreams ==
    {expr \o <<Semicolon, EndOfFile>> : expr \in Expressions}
    \cup {decl \o <<Semicolon, EndOfFile>> : decl \in Declarations}
    \cup {stmt \o <<EndOfFile>> : stmt \in Statements}

InitParse ==
    /\ prog = [fam |-> "tokens"]
    /\ Loaded(NewCodeGenerator)
    /\ instructions2 = <<>>
    /\ vm2 = NewMachine
    /\ result2 = NoResult
    /\ pair = NewPair
    /\ lexer = NewLexer(<<>>)
    /\ parser \in {NewParser(tokens) : tokens \in TokenStreams}
    /\ NoUnits

\* The host calls parse().
Parse ==
    /\ ~Present(parser.ast) /\ ~Failed(parser)
    /\ parser' = parse(parser)
    /\ UNCHANGED <<prog, compileError, instructions, spans, vm, gen, result, mon,
                   instructions2, vm2, result2, pair, lexer, codegen, table>>

NextParse == Parse

SpecParse == InitParse /\ [][NextParse]_vars

(***************************************************************************)
(* A code generator on its own: a host constructs one CodeGenerator and    *)
(* calls generate() on it with one program after another, whatever the     *)
(* earlier calls returned or threw.                                        *)
(***************************************************************************)
\* How many calls of generate() the host makes, at most.
MaxCalls == 3

\* The programs passed to generate():
\*   break;                      while (true) { x; }       int x = 1; x;
\*   while (false) { break; }    continue;                 for (;;) { y; }
\*   int x = 1; int x = 2;       while (true) { while (true) { x; } }
\*   int a = 1; while (a < 2) { continue; }
\*   for (int i = 0; i < 2; i++) { if (i == 1 && true) { continue; } else { break; } }
\*   while (true || false) { break; }
GeneratedPrograms ==
    <<Program(<<BreakStmt>>),
      Program(<<WhileStmt(BoolLiteral(TRUE),
                          BlockStmt(<<ExpressionStmt(Identifier("x"))>>))>>),
      Program(<<DeclareInt("x", IntLiteral(1)), ExpressionStmt(Identifier("x"))>>),
      Program(<<WhileStmt(BoolLiteral(FALSE), BlockStmt(<<BreakStmt>>))>>),
      Program(<<ContinueStmt>>),
      Program(<<ForStmt(Absent, Absent, Absent,
                        BlockStmt(<<ExpressionStmt(Identifier("y"))>>))>>),
      Program(<<DeclareInt("x", IntLiteral(1)), DeclareInt("x", IntLiteral(2))>>),
      Program(<<WhileStmt(BoolLiteral(TRUE),
                          WhileStmt(BoolLiteral(TRUE),
                                    BlockStmt(<<ExpressionStmt(Identifier("x"))>>)))>>),
      Program(<<DeclareInt("a", IntLiteral(1)),
                WhileStmt(Binary(Identifier("a"), "LT", IntLiteral(2)),
                          BlockStmt(<<ContinueStmt>>))>>),
      Program(<<ForStmt(DeclareInt("i", IntLiteral(0)),
                        Binary(Identifier("i"), "LT", IntLiteral(2)),
                        Update("INC", Identifier("i"), FALSE),
                        BlockStmt(<<IfStmt(Binary(Binary(Identifier("i"), "EQ", IntLiteral(1)),
                                                  "LOGICAL_AND", BoolLiteral(TRUE)),
                                           BlockStmt(<<ContinueStmt>>),
                                           BlockStmt(<<BreakStmt>>))>>))>>),
      Program(<<WhileStmt(Binary(BoolLiteral(TRUE), "LOGICAL_OR", BoolLiteral(FALSE)),
                          BlockStmt(<<BreakStmt>>))>>)>>

InitGen ==
    /\ prog = [fam |-> "generate"]
    /\ Loaded(NewCodeGenerator)
    /\ instructions2 = <<>>
    /\ vm2 = NewMachine
    /\ result2 = NoResult
    /\ pair = NewPair
    /\ NoFrontEnd

\* The host calls generate(program).
Generate ==
    /\ codegen.calls < MaxCalls
    /\ \E k \in 1..Len(GeneratedPrograms) :
          codegen' = [g |-> generate(codegen.g, GeneratedPrograms[k]),
                      program |-> GeneratedPrograms[k],
                      calls |-> codegen.calls + 1]
    /\ UNCHANGED <<prog, compileError, instructions, spans, vm, gen, result, mon,
                   instructions2, vm2, result2, pair, lexer, parser, table>>

NextGen == Generate

SpecGen == InitGen /\ [][NextGen]_vars

(***************************************************************************)
(* A symbol table on its own: a host constructs a SymbolTable and calls    *)
(* its methods, exitScope() never more often than enterScope().            *)
(***************************************************************************)
\* How deep the host nests scopes, the global scope being 1.
MaxDepth == 3

\* How many records the host lets the table hold.
MaxLocals == 4

TableNames == {"a", "b"}

\* The table at the start of a call: what the last call threw is gone.
TableNow == [table.st EXCEPT !.err = NoError]

InitTable ==
    /\ prog = [fam |-> "table"]
    /\ Loaded(NewCodeGenerator)
    /\ instructions2 = <<>>
    /\ vm2 = NewMachine
    /\ result2 = NoResult
    /\ pair = NewPair
    /\ NoFrontEnd

OnlyTable ==
    UNCHANGED <<prog, compileError, instructions, spans, vm, gen, result, mon,
                instructions2, vm2, result2, pair, lexer, parser, codegen>>

EnterScope ==
    /\ table.st.scopeDepth < MaxDepth
    /\ table' = [st |-> enterScope(TableNow), call |-> "enterScope", name |-> "",
                 returned |-> -1]
    /\ OnlyTable

ExitScope ==
    /\ table.st.scopeDepth > 1
    /\ table' = [st |-> exitScope(TableNow), call |-> "exitScope", name |-> "",
                 returned |-> exitScopeCount(TableNow)]
    /\ OnlyTable

Define ==
    /\ Len(table.st.locals) < MaxLocals
    /\ \E name \in TableNames :
          table' = [st |-> define(TableNow, name), call |-> "define", name |-> name,
                    returned |-> -1]
    /\ OnlyTable

\* resolve(name): the index returned, or the Error thrown.
Resolve ==
    /\ \E name \in TableNames :
          table' = [st |-> IF resolve(TableNow, name) < 0
                           THEN [TableNow EXCEPT !.err = ErrUndefinedVariable]
                           ELSE TableNow,
                    call |-> "resolve", name |-> name,
                    returned |-> resolve(TableNow, name)]
    /\ OnlyTable

NextTable == EnterScope \/ ExitScope \/ Define \/ Resolve

SpecTable == InitTable /\ [][NextTable]_vars

(***************************************************************************)
(* Vocabulary of the properties.                                           *)
(***************************************************************************)
\* The opcode at address k of the compiled program ("" outside it).
OpcodeAt(k) == IF 0 <= k /\ k < Len(instructions) THEN instructions[k + 1].opcode ELSE ""

Top(m) == SlotRead(m.stack, m.sp - 1)

\* The live part of a machine's stack.
Live(m) == [k \in 0..(m.sp - 1) |-> SlotRead(m.stack, k)]

\* The last call threw.
Thrown == result.outcome = "throw"

\* No call has thrown so far.
Clean == mon.throws = 0

\* The last call was one that completed a run: it returned the machine's
\* result (a later next() on the finished generator returns undefined).
Completed == result.outcome = "return" /\ result.value.type # "undefined"

\* The program has run from its first instruction to its end, raising nothing.
Ended == Completed /\ Clean

\* The program has run from its first instruction to its first error.
Raised == Thrown /\ mon.throws = 1

Ended2 == result2.outcome = "return" /\ result2.value.type # "undefined"

Active(i) == mon.entry[i].sp # -1

\* Control stands at the first instruction after span i, having run
\* through the span from its first instruction.
Left(i) == Active(i) /\ vm.ip = spans[i].end /\ Clean

StatementKinds ==
    {"ExpressionStmt", "BlockStmt", "IfStmt", "WhileStmt", "ForStmt", "VarDeclaration",
     "BreakStmt", "ContinueStmt", "EmptyStmt"}

\* What a statement may add to the stack.
Delta(span) ==
    IF span.kind = "VarDeclaration" THEN span.n ELSE IF span.retained THEN 1 ELSE 0

\* C1: whenever control reaches the first instruction after a compiled
\* statement, sp equals its value at the statement's first instruction (plus
\* the number of declarators for a declaration, plus one for the retained
\* final expression statement), for every statement form, loops whose bodies
\* contain break or continue included.
C1_StackBalanced ==
    \A i \in 1..Len(spans) :
        (spans[i].kind \in StatementKinds /\ Left(i))
            => vm.sp = mon.entry[i].sp + Delta(spans[i])

\* The left operand recorded at the jump of a short-circuit operator decides
\* the result.
Decides(span, e) ==
    \/ span.operator = "LOGICAL_AND" /\ e.old = createBool(FALSE)
    \/ span.operator = "LOGICAL_OR" /\ e.old = createBool(TRUE)

DecidedProgram ==
    /\ prog.fam = "logical"
    /\ \/ prog.op = "LOGICAL_AND" /\ prog.a = 0
       \/ prog.op = "LOGICAL_OR" /\ prog.a = 1

\* C2: for L && R with L false and L || R with L true, control goes from the
\* operator's jump straight to the end of R's code, no instruction of R is
\* executed, and the stack holds L's value there; a division by zero in R
\* raises nothing and the program's value is L's.
C2_ShortCircuit ==
    /\ \A i \in 1..Len(spans) :
          (spans[i].kind = "ShortCircuit" /\ Active(i) /\ Decides(spans[i], mon.entry[i]))
              => /\ vm.ip \in {spans[i].start, spans[i].end}
                 /\ vm.ip = spans[i].end
                       => /\ vm.sp = mon.entry[i].sp
                          /\ Top(vm) = mon.entry[i].old
                          /\ Clean
    /\ DecidedProgram => /\ Clean
                         /\ Ended => result.value = createBool(prog.a = 1)

\* false && (1 / 0 > 0) has been evaluated: control stands after it.
C2_Witness ==
    /\ prog.fam = "logical" /\ prog.op = "LOGICAL_AND" /\ prog.f
    /\ \E i \in 1..Len(spans) :
          /\ spans[i].kind = "ShortCircuit" /\ Left(i)
          /\ Decides(spans[i], mon.entry[i])
          /\ Top(vm) = createBool(FALSE)

MoveOpcodes == {"PUSH", "LOAD", "DUP", "STORE"}

ReadingOpcodes ==
    {"ADD", "SUB", "MUL", "DIV", "PERCENT", "NEGATE",
     "EQ", "NEQ", "LT", "GT", "LTE", "GTE",
     "JUMP_IF_FALSE", "JUMP_IF_FALSE_PEEK", "JUMP_IF_TRUE_PEEK"}

\* C3: push, load, dup and store never raise because the value they move is
\* the uninitialized sentinel; the error about an uninitialized value comes
\* only from an arithmetic, comparison or conditional-jump opcode.
C3_MovesNeverRaise ==
    result.error = ErrUninitialized
        => /\ OpcodeAt(mon.last) \notin MoveOpcodes
           /\ OpcodeAt(mon.last) \in ReadingOpcodes

\* The operands of the indexed instruction about to run: for LOAD_IDX the
\* index is on top of the pointer, for STORE_IDX the value is on top of both.
IndexDepth == IF OpcodeAt(vm.ip) = "STORE_IDX" THEN 2 ELSE 1

PendingIndex == SlotRead(vm.stack, vm.sp - IndexDepth)

PendingPointer == SlotRead(vm.stack, vm.sp - IndexDepth - 1)

\* The next instruction is load_idx or store_idx on a valid array pointer
\* with an integer index outside the array.
OutOfRangePending ==
    /\ OpcodeAt(vm.ip) \in {"LOAD_IDX", "STORE_IDX"}
    /\ vm.sp - IndexDepth - 1 >= 0
    /\ PendingPointer.type = "POINTER"
    /\ PendingPointer.value.address \in 0..(Len(vm.heap) - 1)
    /\ PendingIndex.type = "INT"
    /\ \/ PendingIndex.value < 0
       \/ PendingIndex.value >= Len(vm.heap[PendingPointer.value.address + 1])

\* The machine is made to run its next instruction.
Runs == mon'.fetched > mon.fetched

\* C4: load_idx and store_idx with a valid array pointer and an integer
\* index i, i < 0 or i >= length, raise a runtime error and leave the heap
\* as it was: nothing is read into the stack, nothing is written, no array
\* changes length.
C4_OutOfRangeRaises ==
    [][(OutOfRangePending /\ Runs)
          => /\ result'.outcome = "throw"
             /\ vm'.err = ErrBounds
             /\ vm'.heap = vm.heap
             /\ vm'.stack = vm.stack
             /\ vm'.sp < vm.sp]_vars

\* arr[3] = 10 on an array of three elements has raised.
C4_Witness ==
    /\ prog.fam = "outOfBounds" /\ prog.a = 3 /\ prog.f
    /\ OpcodeAt(mon.last) = "STORE_IDX"
    /\ result.error = ErrBounds
    /\ Len(vm.heap[1]) = 3

Names == {"a", "b", "c", "i", "j", "n", "r", "s", "t", "arr", "sum"}

\* C5: after a block or a for statement every name resolves to the slot it
\* resolved to before (names declared inside resolve to nothing again), also
\* when the block or the for header declared the same name; at run time the
\* outer variable still holds its own value.
C5_ShadowingRestored ==
    /\ \A i \in 1..Len(spans) :
          spans[i].kind \in {"BlockStmt", "ForStmt"}
              => \A name \in Names :
                    resolveFrom(spans[i].after, Len(spans[i].after), name)
                        = resolveFrom(spans[i].before, Len(spans[i].before), name)
    /\ (prog.fam = "shadowBlock" /\ Ended) => result.value = createInt(prog.a + prog.b)
    /\ (prog.fam = "shadowFor" /\ Ended) => result.value = createInt(prog.a)

\* int a = 2; int b = 10; { int a = 1; b = a; } int c = a + b; c;  gave 3.
C5_Witness ==
    /\ prog.fam = "shadowBlock" /\ prog.a = 2 /\ prog.b = 1
    /\ Ended
    /\ result.value = createInt(3)

UpdatedValue(span, old) == IF span.operator = "INC" THEN old + 1 ELSE old - 1

\* C6: x++ and x-- leave the value x had before, the prefix forms the new
\* value, and x holds old + 1 (old - 1) as soon as the update's instructions
\* have run, so that x++ + x sees the new value.
C6_UpdateValue ==
    /\ \A i \in 1..Len(spans) :
          (IsIdentifierUpdate(spans[i]) /\ Left(i) /\ mon.entry[i].old.type = "INT")
              => LET old == mon.entry[i].old.value
                     new == UpdatedValue(spans[i], old)
                 IN  /\ SlotRead(vm.stack, vm.bp + UpdateSlot(instructions, spans[i]))
                           = createInt(new)
                     /\ Top(vm) = createInt(IF spans[i].prefix THEN new ELSE old)
                     /\ vm.sp = mon.entry[i].sp + 1
    /\ (prog.fam = "update" /\ Ended)
          => LET new == IF prog.op = "INC" THEN prog.a + 1 ELSE prog.a - 1
             IN  result.value = createInt((IF prog.f THEN new ELSE prog.a) + new)

\* int i = 2; int j = i++ + i; j;  gave 5.
C6_Witness ==
    /\ prog.fam = "update" /\ prog.a = 2 /\ prog.op = "INC" /\ ~prog.f
    /\ Ended
    /\ result.value = createInt(5)

\* C7: the bytecode of t op= e and the bytecode of t = t op e, run from the
\* same machine state, end in the same stack, heap and expression value, or
\* in the same error, for t an identifier or a subscript and op any of
\* + - * / %.
C7_CompoundEquivalence ==
    (HasTwin(prog) /\ (Ended \/ Raised) /\ (Ended2 \/ result2.outcome = "throw"))
        => /\ result.outcome = result2.outcome
           /\ result.error = result2.error
           /\ result.value = result2.value
           /\ vm.sp = vm2.sp
           /\ Live(vm) = Live(vm2)
           /\ vm.heap = vm2.heap

\* int t[2] = {0, -1}; t[1] -= 2;  and its expansion have both run.
C7_Witness ==
    /\ prog.fam = "compound" /\ prog.f /\ prog.op = "MINUS_ASSIGN"
    /\ prog.a = -1 /\ prog.b = 2
    /\ Ended /\ Ended2
    /\ result2.value = createInt(-3)
    /\ vm.heap[1][2] = createInt(-3)

Sign(n) == IF n < 0 THEN -1 ELSE IF n > 0 THEN 1 ELSE 0

\* q is the quotient of l by r truncated toward zero.
IsTruncatedQuotient(q, l, r) ==
    /\ Abs(q) * Abs(r) <= Abs(l)
    /\ Abs(l) < (Abs(q) + 1) * Abs(r)
    /\ q # 0 => Sign(q) = Sign(l) * Sign(r)

\* C8: for integers L and R, R # 0, div pushes the quotient truncated toward
\* zero and percent pushes r with L = trunc(L / R) * R + r, |r| < |R| and r
\* zero or of the sign of L.
C8_TruncatedDivision ==
    [][(/\ OpcodeAt(vm.ip) \in {"DIV", "PERCENT"}
        /\ vm.sp >= 2
        /\ Top(vm).type = "INT"
        /\ SlotRead(vm.stack, vm.sp - 2).type = "INT"
        /\ Top(vm).value # 0
        /\ mon'.fetched = mon.fetched + 1)
          => LET L == SlotRead(vm.stack, vm.sp - 2).value
                 R == Top(vm).value
                 pushed == Top(vm')
             IN  /\ ~Failed(vm')
                 /\ vm'.sp = vm.sp - 1
                 /\ pushed.type = "INT"
                 /\ IF OpcodeAt(vm.ip) = "DIV"
                    THEN IsTruncatedQuotient(pushed.value, L, R)
                    ELSE /\ \E q \in -Abs(L)..Abs(L) :
                               IsTruncatedQuotient(q, L, R) /\ L = q * R + pushed.value
                         /\ Abs(pushed.value) < Abs(R)
                         /\ pushed.value = 0 \/ Sign(pushed.value) = Sign(L)]_vars

\* -7 / 2 has given -3.
C8_Witness ==
    /\ prog.fam = "divMod" /\ prog.a = -7 /\ prog.b = 2 /\ prog.op = "SLASH"
    /\ OpcodeAt(mon.last) = "DIV"
    /\ Clean
    /\ Top(vm) = createInt(-3)

\* What the programs whose last statement is an expression statement mean.
HasMeaning(d) ==
    \/ d.fam \in {"whileSum", "array", "update", "shadowBlock", "shadowFor", "if"}
    \/ d.fam = "tail" /\ d.b = 3
    \/ d.fam = "logical" /\ ~d.f

Meaning(d) ==
    CASE d.fam = "whileSum" -> createInt((d.a * (d.a - 1)) \div 2)
      [] d.fam = "array" -> createInt(61)
      [] d.fam = "update" ->
            LET new == IF d.op = "INC" THEN d.a + 1 ELSE d.a - 1
            IN  createInt((IF d.f THEN new ELSE d.a) + new)
      [] d.fam = "shadowBlock" -> createInt(d.a + d.b)
      [] d.fam = "shadowFor" -> createInt(d.a)
      [] d.fam = "if" -> createInt(IF d.a > 0 THEN 20 ELSE IF d.f THEN 1 ELSE d.a)
      [] d.fam = "tail" -> createInt(6)
      [] d.fam = "logical" ->
            createBool(IF d.op = "LOGICAL_AND" THEN d.a = 1 /\ d.b = 1
                       ELSE d.a = 1 \/ d.b = 1)

C10_OneInstructionPerStep ==
    [][/\ (Step /\ result'.outcome = "yield")
             => /\ mon'.fetched = mon.fetched + 1
                /\ mon'.yields = mon.yields + 1
                /\ vm' = Execute(AfterFetch([vm EXCEPT !.err = NoError]),
                                 Fetch(instructions, vm))
       /\ (Step /\ result'.outcome = "return")
             => /\ mon'.fetched = mon.fetched
                /\ vm' = [vm EXCEPT !.err = NoError]
       /\ (Step /\ result'.outcome = "throw")
             => /\ mon'.fetched = mon.fetched + 1
                /\ mon'.yields = mon.yields
       /\ mon'.yields + mon'.throws = mon'.fetched]_vars

\* A host has stepped through the whole while loop, one instruction a step.
C10_Witness ==
    /\ prog.fam = "whileSum" /\ prog.a = 3
    /\ result.call = "next"
    /\ Ended
    /\ mon.yields = mon.fetched
    /\ mon.fetched > Len(instructions)

ConditionalJumps == {"JUMP_IF_FALSE", "JUMP_IF_FALSE_PEEK", "JUMP_IF_TRUE_PEEK"}

C14_NotRequiresBoolean ==
    [][(Step /\ Runs /\ OpcodeAt(vm.ip) = "NOT" /\ Top(vm).type # "BOOL")
          => /\ result'.outcome = "throw"
             /\ vm'.sp = IF vm.sp > 0 THEN vm.sp - 1 ELSE vm.sp]_vars

\* The zero value of the element type an alloc_arr instruction carries.
ZeroValue(typeToken) ==
    CASE typeToken.type = "BOOL" -> createBool(FALSE)
      [] typeToken.type = "DOUBLE" -> [type |-> "DOUBLE", value |-> 0]
      [] OTHER -> createInt(0)

\* C15: alloc_arr carrying the element type T, on an integer size n >= 0,
\* appends to the heap an array of exactly n elements, each the zero value
\* of T with T's tag, and pushes its pointer; an element no initializer
\* overwrote is read back as that zero value.
C15_ZeroFill ==
    /\ [][(Step /\ Runs /\ OpcodeAt(vm.ip) = "ALLOC_ARR"
                /\ Top(vm).type = "INT" /\ Top(vm).value >= 0)
             => /\ result'.outcome = "yield"
                /\ vm'.heap = Append(vm.heap,
                                     [i \in 1..Top(vm).value |->
                                         ZeroValue(instructions[vm.ip + 1].operand)])
                /\ Top(vm') = createPointer(Len(vm.heap))]_vars
    /\ []((prog.fam = "arrayFill" /\ prog.b < prog.a /\ Ended)
             => result.value = ZeroValue(Token(prog.op, prog.op)))

\* C16: an array declaration whose initializer list has more elements (b)
\* than its declared size (a) does not compile: compile fails with the
\* compile error, there is no bytecode, and no array is ever allocated.
C16_OversizedListRejected ==
    (prog.fam \in {"initList", "arrayFill"} /\ prog.b > prog.a)
       => /\ compileError = ErrInitListTooLong
          /\ instructions = <<>>
          /\ vm.heap = <<>>

\* Whether a break or continue of the statement list has no enclosing loop
\* inside the list: loop bodies are not searched.
RECURSIVE StrayJumpIn(_)
StrayJumpIn(nodes) ==
    IF nodes = <<>> THEN FALSE
    ELSE LET node == Head(nodes)
         IN  \/ node.kind \in {"BreakStmt", "ContinueStmt"}
             \/ node.kind = "BlockStmt" /\ StrayJumpIn(node.body)
             \/ node.kind = "IfStmt" /\ StrayJumpIn(<<node.thenBranch>>)
             \/ node.kind = "IfStmt" /\ Present(node.elseBranch)
                   /\ StrayJumpIn(<<node.elseBranch>>)
             \/ StrayJumpIn(Tail(nodes))

JumpErrors == {ErrBreakOutsideLoop, ErrContinueOutsideLoop}

Encloses(i, address) ==
    spans[i].kind = "Loop" /\ spans[i].start <= address /\ address < spans[i].end

\* The innermost loop enclosing the address: of nested loops the inner one
\* ends first.
InnermostLoop(address) ==
    CHOOSE i \in 1..Len(spans) :
        /\ Encloses(i, address)
        /\ \A j \in 1..Len(spans) : Encloses(j, address) => spans[i].end <= spans[j].end

\* Whether the instruction at the address is the jump of a break (kind
\* "BreakStmt") or of a continue (kind "ContinueStmt").
JumpAt(kind, address) ==
    \E i \in 1..Len(spans) :
        spans[i].kind = kind /\ spans[i].start = address /\ spans[i].end = address + 1

\* The address just after a loop's body: where a for loop's increment starts,
\* and a while loop's closing jump.
BodyEnd(loop) == IF loop.operator = "for" THEN loop.n ELSE loop.end - 1

\* Whether the body of the loop was compiled to the addresses from..to.
IsBody(from, to) ==
    \E i \in 1..Len(spans) :
        spans[i].kind \in StatementKinds /\ spans[i].start = from /\ spans[i].end = to

ExpressionKinds ==
    {"Assignment", "Binary", "Unary", "Update", "Literal", "Identifier", "Subscript"}

\* Whether an expression was compiled to the addresses from..to.
IsExpression(from, to) ==
    \E i \in 1..Len(spans) :
        spans[i].kind \in ExpressionKinds /\ spans[i].start = from /\ spans[i].end = to

\* Whether the address is inside the increment code of a for loop.
InIncrement(i, address) ==
    /\ spans[i].kind = "Loop" /\ spans[i].operator = "for"
    /\ spans[i].n <= address /\ address < spans[i].end - 1

\* The step about to be taken runs the jump of a continue (break) statement.
Continues == Step /\ Runs /\ JumpAt("ContinueStmt", vm.ip)

Breaks == Step /\ Runs /\ JumpAt("BreakStmt", vm.ip)

\* Control after a continue in the loop: at the loop's condition for a while
\* loop, at the first instruction after the body for a for loop.
ContinuedIn(loop) ==
    /\ loop.body <= vm.ip /\ vm.ip < BodyEnd(loop)
    /\ IsBody(loop.body, BodyEnd(loop))
    /\ vm'.ip = IF loop.operator = "for" THEN BodyEnd(loop) ELSE loop.start
    /\ vm'.sp = vm.sp /\ vm'.stack = vm.stack
    /\ (loop.operator = "for" /\ loop.n < loop.end - 1)
          => /\ IsExpression(loop.n, loop.end - 2)
             /\ OpcodeAt(loop.end - 2) = "POP"

\* C18: a continue goes to the condition of the innermost enclosing while
\* loop, or to the increment of the innermost enclosing for loop, skipping
\* the rest of the body; the increment code then runs forward, once, to the
\* loop's closing jump, which goes to the loop's condition.
C18_Continue ==
    [][/\ Continues
             => /\ result'.outcome = "yield"
                /\ ContinuedIn(spans[InnermostLoop(vm.ip)])
       /\ \A i \in 1..Len(spans) :
             /\ (Step /\ Runs /\ InIncrement(i, vm.ip) /\ result'.outcome = "yield")
                   => (vm.ip < vm'.ip /\ vm'.ip < spans[i].end)
             /\ (Step /\ Runs /\ spans[i].kind = "Loop" /\ vm.ip = spans[i].end - 1)
                   => (result'.outcome = "yield" /\ vm'.ip = spans[i].start)]_vars

\* The inner loop of the nested for loops has continued at j = 1: control is
\* at the inner loop's increment.
C18_Witness ==
    /\ prog.fam = "nestedLoop" /\ ~prog.f
    /\ result.call = "next" /\ Clean
    /\ JumpAt("ContinueStmt", mon.last)
    /\ vm.ip = spans[InnermostLoop(mon.last)].n
    /\ \E i \in 1..Len(spans) : Encloses(i, mon.last) /\ i # InnermostLoop(mon.last)

\* Control after a break out of the loop.
BrokenOut(loop) ==
    /\ loop.body <= vm.ip /\ vm.ip < BodyEnd(loop)
    /\ OpcodeAt(loop.end - 1) = "JUMP"
    /\ instructions[loop.end].operand = loop.start
    /\ vm'.ip = loop.end
    /\ vm'.sp = vm.sp /\ vm'.stack = vm.stack
    /\ loop.locals > 0
          => /\ OpcodeAt(loop.end) = "POP_N"
             /\ instructions[loop.end + 1].operand = loop.locals

\* C19: a break goes to the first instruction after the closing jump of the
\* innermost enclosing loop, so neither that loop's condition nor its
\* increment runs again; that instruction is the pop of the variables a for
\* loop's header declared; and control is still inside the body of every
\* outer loop.
C19_Break ==
    [][Breaks
          => /\ result'.outcome = "yield"
             /\ BrokenOut(spans[InnermostLoop(vm.ip)])
             /\ \A i \in 1..Len(spans) :
                   (Encloses(i, vm.ip) /\ i # InnermostLoop(vm.ip))
                      => /\ spans[i].body <= vm'.ip
                         /\ vm'.ip <= BodyEnd(spans[i])]_vars

\* The inner loop of the nested for loops was left by its break at j = 1:
\* control is at the pop of j, inside the outer loop's body.
C19_Witness ==
    /\ prog.fam = "nestedLoop" /\ prog.f
    /\ result.call = "next" /\ Clean
    /\ JumpAt("BreakStmt", mon.last)
    /\ vm.ip = spans[InnermostLoop(mon.last)].end
    /\ OpcodeAt(vm.ip) = "POP_N"
    /\ \E i \in 1..Len(spans) : Encloses(i, mon.last) /\ i # InnermostLoop(mon.last)

\* C20: once an instruction has raised a runtime error the machine runs no
\* further instruction: every later request for a step and every later
\* runToEnd() leaves ip, the stack and the heap as the failure left them.
C20_HaltsAfterError ==
    [][(mon.throws > 0 /\ (Step \/ RunToEnd))
          => /\ mon'.fetched = mon.fetched
             /\ vm'.ip = vm.ip
             /\ vm'.sp = vm.sp
             /\ vm'.stack = vm.stack
             /\ vm'.heap = vm.heap]_vars

\* The other machine of the pair.
Other(id) == 3 - id

\* The shorter of two lengths.
Min(a, b) == IF a < b THEN a ELSE b

C12_StackPointerBounds ==
    /\ 0 <= vm.bp
    /\ vm.bp <= vm.sp
    /\ vm.sp <= STACK_MAX_SIZE

(***************************************************************************)
(* The lexer's tokens.                                                     *)
(***************************************************************************)
\* The index of the last token returned.
LastToken(lx) == Len(lx.tokens)

\* C21: once the lexer's position has reached the end of the source, every
\* scanToken() returns an EOF token and leaves the position, the line and the
\* column as they were; no token other than EOF is returned after an EOF.
C21_EofForever ==
    /\ [](\A i \in 1..LastToken(lexer) : \A j \in i..LastToken(lexer) :
             lexer.tokens[i].type = "EOF" => lexer.tokens[j].type = "EOF")
    /\ [][(lexer.current >= Len(lexer.source) /\ ScanToken)
             => /\ lexer'.err = NoError
                /\ LastToken(lexer') = LastToken(lexer) + 1
                /\ lexer'.tokens[LastToken(lexer')].type = "EOF"
                /\ lexer'.current = lexer.current
                /\ lexer'.line = lexer.line
                /\ lexer'.col = lexer.col]_vars

\* A token, then trailing white space consumed by the call that returned the
\* first EOF, then EOF again and again.
C21_Witness ==
    /\ LastToken(lexer) = 4
    /\ lexer.tokens[1].type = "IDENTIFIER"
    /\ \A k \in 2..4 : lexer.tokens[k].type = "EOF"
    /\ lexer.source[Len(lexer.source)] = "\n"

\* The 1-based line of the character at the 0-based offset at of the source.
TrueLine(source, at) == 1 + Cardinality({i \in 1..at : source[i] = "\n"})

\* Its 1-based column: its distance from the last line break before it.
TrueCol(source, at) ==
    at + 1 - (CHOOSE i \in 0..at :
                 /\ i = 0 \/ source[i] = "\n"
                 /\ \A h \in (i + 1)..at : source[h] # "\n")

\* C22: every token with a lexeme carries the 1-based line and the 1-based
\* column of the first character of its lexeme in the source, on any line.
C22_TokenPosition ==
    \A k \in 1..LastToken(lexer) :
        lexer.tokens[k].lexeme # <<>>
        => /\ lexer.tokens[k].line = TrueLine(lexer.source, lexer.starts[k])
           /\ lexer.tokens[k].col = TrueCol(lexer.source, lexer.starts[k])

\* The keyword table of the language: the word and its token type.
KeywordTable ==
    keywords \cup {<<<<"b", "r", "e", "a", "k">>, "BREAK">>,
                   <<<<"c", "o", "n", "t", "i", "n", "u", "e">>, "CONTINUE">>}

\* C23: a lexeme that begins with a letter or an underscore is returned as
\* the keyword token of the table when it is one of the eleven keywords, and
\* as an IDENTIFIER token otherwise; break and continue give BREAK and
\* CONTINUE.
C23_Keywords ==
    \A k \in 1..LastToken(lexer) :
        (lexer.tokens[k].lexeme # <<>> /\ isAlpha(lexer.tokens[k].lexeme[1]))
        => \/ <<lexer.tokens[k].lexeme, lexer.tokens[k].type>> \in KeywordTable
           \/ /\ lexer.tokens[k].type = "IDENTIFIER"
              /\ \A entry \in KeywordTable : entry[1] # lexer.tokens[k].lexeme

\* The first comment of the source is a block comment that opens at offset i
\* and whose closing delimiter begins at offset j.
BlockComment(source, i, j) ==
    /\ charAt(source, i) = "/" /\ charAt(source, i + 1) = "*"
    /\ j >= i + 2
    /\ charAt(source, j) = "*" /\ charAt(source, j + 1) = "/"
    /\ \A h \in (i + 2)..(j - 1) : ~(charAt(source, h) = "*" /\ charAt(source, h + 1) = "/")
    /\ \A h \in 0..(i - 1) :
           ~(charAt(source, h) = "/" /\ charAt(source, h + 1) \in {"/", "*"})

\* C24: a terminated block comment gives no error and no token, and a token
\* after it carries its true line.
C24_BlockComment ==
    \A i, j \in 0..Len(lexer.source) :
        BlockComment(lexer.source, i, j)
        => /\ ~(lexer.err # NoError /\ lexer.start \in i..(j + 1))
           /\ \A k \in 1..LastToken(lexer) :
                  /\ lexer.starts[k] \notin i..(j + 1)
                  /\ (lexer.starts[k] >= j + 2 /\ lexer.tokens[k].lexeme # <<>>)
                     => lexer.tokens[k].line = TrueLine(lexer.source, lexer.starts[k])

(***************************************************************************)
(* The parser's trees.                                                     *)
(***************************************************************************)
\* The fields of a node that hold nodes, in source order.
Children(node) ==
    CASE node.kind \in {"Program", "BlockStmt"} -> node.body
      [] node.kind = "ExpressionStmt" -> <<node.expression>>
      [] node.kind = "VarDeclaration" -> node.declarators
      [] node.kind = "Declarator" -> <<node.size, node.initializer>>
      [] node.kind = "InitializerList" -> node.elements
      [] node.kind = "IfStmt" -> <<node.condition, node.thenBranch, node.elseBranch>>
      [] node.kind = "WhileStmt" -> <<node.condition, node.body>>
      [] node.kind = "ForStmt" ->
             <<node.initializer, node.condition, node.increment, node.body>>
      [] node.kind = "Unary" -> <<node.right>>
      [] node.kind = "Binary" -> <<node.left, node.right>>
      [] node.kind = "Assignment" -> <<node.target, node.value>>
      [] node.kind = "Update" -> <<node.argument>>
      [] node.kind = "Subscript" -> <<node.object, node.index>>
      [] OTHER -> <<>>

\* The node and every node below it.
RECURSIVE Descendants(_)
RECURSIVE DescendantsOfAll(_)
Descendants(node) == <<node>> \o DescendantsOfAll(Children(node))

DescendantsOfAll(nodes) ==
    IF nodes = <<>> THEN <<>>
    ELSE Descendants(Head(nodes)) \o DescendantsOfAll(Tail(nodes))

\* The nodes of the tree parse() returned (none before it has).
Tree == IF Present(parser.ast) THEN Descendants(parser.ast) ELSE <<>>

\* The token array without the final ';' and EOF.
Written == SubSeq(parser.tokens, 1, Len(parser.tokens) - 2)

\* The expressions with a target that is no lvalue: a literal and (a + b).
NonLvalueUses ==
    Uses(<<IntToken("1")>>)
    \cup Uses(<<Token("LPAREN", <<"(">>), Ident("a"), Token("PLUS", <<"+">>), Ident("b"),
              Token("RPAREN", <<")">>)>>)

\* C25: in every tree the parser returns the target of each Assignment and
\* the argument of each Update, prefix or postfix, is an Identifier or a
\* Subscript; an assignment to, or an update of, a literal or (a + b) is
\* rejected with a CompileError.
C25_LvalueTargets ==
    /\ \A i \in 1..Len(Tree) :
           /\ Tree[i].kind = "Assignment"
              => Tree[i].target.kind \in {"Identifier", "Subscript"}
           /\ Tree[i].kind = "Update"
              => Tree[i].argument.kind \in {"Identifier", "Subscript"}
    /\ Written \in NonLvalueUses => ~Present(parser.ast)

\* (a + b)++ has been rejected.
C25_Witness ==
    /\ Written = <<Token("LPAREN", <<"(">>), Ident("a"), Token("PLUS", <<"+">>), Ident("b"),
                   Token("RPAREN", <<")">>), Token("INC", <<"+", "+">>)>>
    /\ parser.err = ErrNotLvalue

\* The levels of the binary operators, lowest first.
Level(type) ==
    CASE type = "LOGICAL_OR" -> 1
      [] type = "LOGICAL_AND" -> 2
      [] type \in {"EQ", "NEQ"} -> 3
      [] type \in {"LT", "LTE", "GT", "GTE"} -> 4
      [] type \in {"PLUS", "MINUS"} -> 5
      [] type \in {"STAR", "SLASH", "PERCENT"} -> 6

\* What is compared of a token: its type, and its name for an identifier.
Key(token) == <<token.type, IF token.type = "IDENTIFIER" THEN token.lexeme ELSE <<>>>>

\* The tokens of an expression in the order they were written (without the
\* parentheses and brackets, which the tree does not keep).
RECURSIVE Flat(_)
Flat(node) ==
    CASE node.kind = "Literal" -> <<<<node.type, <<>>>>>>
      [] node.kind = "Identifier" -> <<Key(node.name)>>
      [] node.kind = "Unary" -> <<Key(node.operator)>> \o Flat(node.right)
      [] node.kind = "Update" ->
             IF node.prefix THEN <<Key(node.operator)>> \o Flat(node.argument)
             ELSE Flat(node.argument) \o <<Key(node.operator)>>
      [] node.kind = "Binary" ->
             Flat(node.left) \o <<Key(node.operator)>> \o Flat(node.right)
      [] node.kind = "Assignment" ->
             Flat(node.target) \o <<Key(node.operator)>> \o Flat(node.value)
      [] node.kind = "Subscript" -> Flat(node.object) \o Flat(node.index)

\* Whether the tokens group freely: no parentheses, brackets or braces.
Ungrouped ==
    \A k \in 1..Len(parser.tokens) :
        parser.tokens[k].type \notin {"LPAREN", "LBRACKET", "LBRACE", "RPAREN", "RBRACKET"}

\* The operator chains of n operators that are expressions of the language:
\* those without an assignment operator, and an identifier, an assignment
\* operator and such a chain.
RECURSIVE WellFormed(_)
WellFormed(n) ==
    {chain \in Chains(n) : \A k \in 1..Len(chain) : chain[k].type \notin AssignmentOperators}
    \cup (IF n = 0 THEN {}
          ELSE {<<Ident("a"), operator>> \o value :
                   operator \in {Token("ASSIGN", <<"=">>), Token("PLUS_ASSIGN", <<"+", "=">>)},
                   value \in WellFormed(n - 1)})

WellFormedChains == WellFormed(MaxOperators)

ParseDone == Failed(parser) \/ Present(parser.ast)

\* The token array begins with a type and a name.
DeclaresFirst ==
    /\ Len(parser.tokens) >= 4
    /\ parser.tokens[1].type \in {"INT", "DOUBLE", "BOOL"}
    /\ parser.tokens[2].type = "IDENTIFIER"

\* C26: a declarator name[] is accepted only when '=' and a brace list follow
\* it: name[] alone and name[] = <expression> are rejected.
C26_ImplicitSizeNeedsList ==
    (DeclaresFirst /\ parser.tokens[3].type = "LBRACKET"
     /\ parser.tokens[4].type = "RBRACKET" /\ Present(parser.ast))
    => /\ Len(parser.tokens) >= 6
       /\ parser.tokens[5].type = "ASSIGN"
       /\ parser.tokens[6].type = "LBRACE"

\* C27: a declarator without brackets initialized with a brace list is
\* rejected at compile time, by the parser or by the code generator.
C27_ScalarWithList ==
    (DeclaresFirst /\ parser.tokens[3].type = "ASSIGN"
     /\ parser.tokens[4].type = "LBRACE" /\ Present(parser.ast))
    => Failed(compile(parser.ast))

\* What parse() makes of the tokens from the fourth on, taken alone.
InitializerAlone == parse(NewParser(SubSeq(parser.tokens, 4, Len(parser.tokens)))).ast

\* C28: when a declarator without brackets is initialized with what is, taken
\* alone, an expression, the declaration is accepted and the declarator is a
\* scalar with that expression as its initializer.
C28_ScalarInitializer ==
    (DeclaresFirst /\ parser.tokens[3].type = "ASSIGN" /\ ParseDone
     /\ Present(InitializerAlone) /\ Len(InitializerAlone.body) = 1
     /\ InitializerAlone.body[1].kind = "ExpressionStmt")
    => /\ Present(parser.ast)
       /\ parser.ast.body
            = <<[kind |-> "VarDeclaration", dataType |-> parser.tokens[1],
                 declarators |->
                     <<[kind |-> "Declarator", name |-> parser.tokens[2],
                        size |-> Absent,
                        initializer |-> InitializerAlone.body[1].expression]>>]>>

(***************************************************************************)
(* STORE.                                                                  *)
(***************************************************************************)
\* The value the chain program assigns: that of c.
Assigned == IF prog.f THEN createBool(prog.a = 1) ELSE createInt(prog.a)

\* C30: a STORE k that does not raise writes the value on top of the stack
\* into slot bp + k and changes nothing else: sp, bp, the top value, every
\* other slot and the heap stay as they were; and after a = b = c the
\* variables a and b hold the value of c, which is the value of the
\* expression.
C30_StoreKeepsTop ==
    /\ []((prog.fam = "chain" /\ Ended)
            => /\ SlotRead(vm.stack, 0) = Assigned
               /\ SlotRead(vm.stack, 1) = Assigned
               /\ SlotRead(vm.stack, 2) = Assigned
               /\ result.value = Assigned)
    /\ [][(Step /\ OpcodeAt(vm.ip) = "STORE" /\ result'.outcome = "yield")
             => /\ vm'.sp = vm.sp
                /\ vm'.bp = vm.bp
                /\ vm'.heap = vm.heap
                /\ Top(vm') = Top(vm)
                /\ SlotRead(vm'.stack, vm.bp + instructions[vm.ip + 1].operand) = Top(vm)
                /\ \A k \in (DOMAIN vm.stack) \cup (DOMAIN vm'.stack) :
                       k # vm.bp + instructions[vm.ip + 1].operand
                       => SlotRead(vm'.stack, k) = SlotRead(vm.stack, k)]_vars

\* The outer STORE of a = b = c has stored in a the value the inner one left
\* on the stack.
C30_Witness ==
    /\ prog.fam = "chain" /\ prog.a = 2 /\ prog.b = 0 /\ ~prog.f
    /\ OpcodeAt(mon.last) = "STORE"
    /\ OpcodeAt(mon.last - 1) = "STORE"
    /\ result.outcome = "yield"
    /\ SlotRead(vm.stack, 0) = createInt(2)
    /\ SlotRead(vm.stack, 1) = createInt(2)
    /\ Top(vm) = createInt(2)
    /\ vm.sp = 4

(***************************************************************************)
(* STORE_IDX.                                                              *)
(***************************************************************************)
\* The operands of an indexed store about to execute.
StoredValue == SlotRead(vm.stack, vm.sp - 1)

StoredIndex == SlotRead(vm.stack, vm.sp - 2)

StoredPointer == SlotRead(vm.stack, vm.sp - 3)

C32_HeapGrows ==
    /\ [][/\ Len(vm'.heap) >= Len(vm.heap)
           /\ \A a \in 1..Len(vm.heap) : Len(vm'.heap[a]) = Len(vm.heap[a])]_vars
    /\ [][(Step /\ result'.outcome = "yield")
             => IF OpcodeAt(vm.ip) = "ALLOC_ARR"
                THEN /\ Len(vm'.heap) = Len(vm.heap) + 1
                     /\ Top(vm') = createPointer(Len(vm.heap))
                     /\ \A a \in 1..Len(vm.heap) : vm'.heap[a] = vm.heap[a]
                ELSE Len(vm'.heap) = Len(vm.heap)]_vars

\* The second allocation of a run has returned address 1, the first array
\* being where it was.
C32_Witness ==
    /\ OpcodeAt(mon.last) = "ALLOC_ARR"
    /\ result.outcome = "yield"
    /\ Len(vm.heap) = 2
    /\ Len(vm.heap[1]) = 1
    /\ vm.heap[1][1] = createInt(7)
    /\ Len(vm.heap[2]) = 2
    /\ Top(vm) = createPointer(1)

(***************************************************************************)
(* Slots and symbol-table indexes.                                         *)
(***************************************************************************)
\* The machine has just executed the last instruction of span i and stands
\* at the first instruction after it.
JustLeft(i) ==
    /\ result.outcome = "yield"
    /\ Clean
    /\ vm.ip = spans[i].end
    /\ spans[i].start <= mon.last
    /\ mon.last < spans[i].end

\* C33: when the values of a declaration have been pushed, the stack holds
\* as many values as the symbol table had records once the declaration was
\* compiled: the value of the variable declared last is in slot bp + k, k
\* its index in the table, which is the operand of the LOAD and STORE
\* instructions compiled from its name.
C33_SlotIsIndex ==
    \A i \in 1..Len(spans) :
        (spans[i].kind = "VarDeclaration" /\ JustLeft(i))
        => vm.sp = vm.bp + Len(spans[i].after)

(***************************************************************************)
(* One generator, many compilations.                                       *)
(***************************************************************************)
\* What a call of generate() gives the host: the Error thrown, or the
\* bytecode returned.
Outcome(g) == IF Failed(g) THEN <<g.err>> ELSE <<NoError, g.bytecode>>

\* C34: whatever generate() was called with before on the same generator,
\* and whether those calls returned or threw, a call gives what the same
\* call gives on a generator just constructed.
C34_GenerateIndependent ==
    [][Generate => Outcome(codegen'.g) = Outcome(compile(codegen'.program))]_vars

(***************************************************************************)
(* The symbol table.                                                       *)
(***************************************************************************)
\* The records of the table a host holds.
Locals == table.st.locals

\* The records of depth d.
AtDepth(locals, d) == SelectSeq(locals, LAMBDA local : local.depth = d)

\* C35: in a table reached by enterScope, define, resolve and exitScope
\* calls, exitScope never called more often than enterScope, no two records
\* have the same name and depth, depths do not decrease along the list and
\* none is above the current depth; a define of a name the current depth
\* already has throws and leaves the table as it was, any other define
\* appends the record; and exitScope removes the records of the current
\* depth, those and no others, and returns how many they were.
C35_TableInvariant ==
    /\ [](/\ \A i \in 1..Len(Locals) : \A j \in 1..Len(Locals) :
                 (Locals[i].name = Locals[j].name /\ Locals[i].depth = Locals[j].depth)
                 => i = j
          /\ \A i \in 1..Len(Locals) :
                /\ Locals[i].depth <= table.st.scopeDepth
                /\ i > 1 => Locals[i - 1].depth <= Locals[i].depth)
    /\ [][Define
             => IF \E i \in 1..Len(Locals) :
                      /\ Locals[i].name = table'.name
                      /\ Locals[i].depth = table.st.scopeDepth
                THEN /\ table'.st.err = ErrRedefined
                     /\ table'.st.locals = Locals
                     /\ table'.st.scopeDepth = table.st.scopeDepth
                ELSE /\ table'.st.err = NoError
                     /\ table'.st.locals
                          = Append(Locals, [name |-> table'.name,
                                            depth |-> table.st.scopeDepth])
                     /\ table'.st.scopeDepth = table.st.scopeDepth]_vars
    /\ [][ExitScope
             => /\ table'.st.locals
                     = SelectSeq(Locals, LAMBDA local : local.depth # table.st.scopeDepth)
                /\ table'.returned = Len(AtDepth(Locals, table.st.scopeDepth))
                /\ table'.st.scopeDepth = table.st.scopeDepth - 1]_vars

\* A define of a name the inner scope has, the outer scope having it too,
\* has thrown.
C35_Witness ==
    /\ table.call = "define"
    /\ table.st.err = ErrRedefined
    /\ table.st.scopeDepth = 2
    /\ Len(AtDepth(Locals, 2)) = 2
    /\ \E i \in 1..Len(Locals) : Locals[i].depth = 1 /\ Locals[i].name = table.name

(***************************************************************************)
(* Read-modify-write of an array element.                                  *)
(***************************************************************************)
\* The elements of the only array of a program, as integers.
Elements == [k \in 1..Len(vm.heap[1]) |-> vm.heap[1][k].value]

\* C36: arr[i] += e, ++arr[i] and arr[i]++ evaluate the index expression
\* twice: with the index i++, i is 2 afterwards; the prefix form leaves the
\* new value of the element and the postfix form the old one.
C36_IndexTwice ==
    (prog.fam = "rmw" /\ Ended)
    => /\ (prog.f /\ prog.b = 1) => result.value = createInt(2)
       /\ (~prog.f /\ prog.b = 0)
          => /\ Elements = <<IF prog.op = "compound" THEN 15 ELSE 11, 20, 30, 40>>
             /\ result.value = createInt(CASE prog.op = "compound" -> 15
                                            [] prog.op = "prefix" -> 11
                                            [] OTHER -> 10)

(***************************************************************************)
(* Jump targets.                                                           *)
(***************************************************************************)
JumpOpcodes == {"JUMP", "JUMP_IF_FALSE", "JUMP_IF_FALSE_PEEK", "JUMP_IF_TRUE_PEEK"}

\* generate() has returned bytecode to the host.
BytecodeReturned == codegen.calls > 0 /\ ~Failed(codegen.g)

\* C37: in the bytecode generate() returns, the operand of every jump is an
\* address of the bytecode or the address just after it, and every jump
\* emitted with a placeholder has been patched once.
C37_JumpsResolved ==
    BytecodeReturned
    => \A k \in 1..Len(codegen.g.bytecode) :
           /\ codegen.g.bytecode[k].opcode \in JumpOpcodes
              => codegen.g.bytecode[k].operand \in 0..Len(codegen.g.bytecode)
           /\ codegen.g.patches[k] \in {-1, 1}

(***************************************************************************)
(* The uninitialized sentinel and the heap.                                *)
(***************************************************************************)
\* C38: no element of any heap array is the uninitialized sentinel, and a
\* LOAD_IDX that does not raise pushes a value that is not the sentinel.
C38_NoSentinelInHeap ==
    /\ [](\A a \in 1..Len(vm.heap) :
              \A i \in 1..Len(vm.heap[a]) : vm.heap[a][i].type # "UNINITIALIZED")
    /\ [][(Step /\ OpcodeAt(vm.ip) = "LOAD_IDX" /\ result'.outcome = "yield")
             => Top(vm').type # "UNINITIALIZED"]_vars

\* An indexed store was handed the sentinel and refused it: the machine
\* raised the uninitialized-variable error and the array still holds its
\* default element.
C38_Witness ==
    /\ OpcodeAt(mon.last) = "STORE_IDX"
    /\ result.outcome = "throw"
    /\ result.error = ErrUninitialized
    /\ Len(vm.heap) = 1
    /\ vm.heap[1] = <<createInt(0)>>

(***************************************************************************)
(* Pointers.                                                               *)
(***************************************************************************)
\* The pointer v names an allocated array.
Allocated(v) == v.type = "POINTER" => v.value.address \in 0..(Len(vm.heap) - 1)

\* C39: the bytecode of a compiled program pushes no pointer constant, and
\* in every state every pointer in a stack slot or in a heap element has an
\* address from 0 to the number of arrays less one, so the machine never
\* raises the invalid-heap-address error.
C39_PointersValid ==
    /\ [](\A k \in 1..Len(instructions) :
              instructions[k].opcode = "PUSH" => instructions[k].operand.type # "POINTER")
    /\ [](\A k \in DOMAIN vm.stack : Allocated(vm.stack[k]))
    /\ [](\A a \in 1..Len(vm.heap) : \A i \in 1..Len(vm.heap[a]) : Allocated(vm.heap[a][i]))
    /\ [](vm.err # ErrHeapAddress /\ result.error # ErrHeapAddress)

\* A pointer was stored in an array, loaded from it again and used as the
\* pointer of an indexed store, which changed the array it names.
C39_Witness ==
    /\ OpcodeAt(mon.last) = "STORE_IDX"
    /\ result.outcome = "yield"
    /\ Len(vm.heap) = 2
    /\ vm.heap[1] = <<createInt(5)>>
    /\ vm.heap[2] = <<createPointer(0)>>

(***************************************************************************)
(* The type of a short-circuit operator's value.                           *)
(***************************************************************************)
\* C40: when control stands after the code of L && R or L || R, having run
\* through it with no error, the value on top of the stack is a boolean.
C40_LogicalIsBoolean ==
    \A i \in 1..Len(spans) :
        (spans[i].kind = "ShortCircuit" /\ Left(i)) => Top(vm).type = "BOOL"

=============================================================================
